---- MODULE Spec2Model ----
(***************************************************************************)
(* Discord <-> ScoutID linked-role bot: the two-leg OAuth2/OIDC linking     *)
(* flow, the credential store and the metadata sync.                        *)
(*                                                                          *)
(* One HTTP request is in flight at a time; `cur` holds the handler's       *)
(* position (pc), its inputs, its local variables and what it has done so   *)
(* far.  Every await on a provider is one step whose response is chosen     *)
(* nondeterministically.                                                    *)
(*                                                                          *)
(* Time is counted in units of 600 s and kept relative: a stored entry      *)
(* carries the time left until Redis drops it (ttl) and the time left until *)
(* Date.now() reaches its expires_at (exp); the clock advances, between     *)
(* requests, to the next instant at which one of these runs out.            *)
(***************************************************************************)
EXTENDS Integers, Sequences, FiniteSets, TLC

\* ----------------------------------------------------------------- bounds
\* Discord users and ScoutID subjects
NUsers == 2
NSubjects == 2
\* correlation tokens the server generates in a run
MaxStates == 2
\* requests the server receives in a run
MaxRequests == 3
\* the guilds a Discord user is a member of
MaxGuilds == 2

\* ------------------------------------------------------ program constants
\* setEx(key, 600, ..) and setEx(key, 3600, ..), in units of 600 s
StateTTL == 1
TokenTTL == 6
CacheTTL == 1
\* the seconds of one unit of time
UnitSeconds == 600
\* maxAge of the clientState cookie, in seconds
CookieMaxAge == 300
\* retryWithBackoff(fn, maxRetries = 3)
MaxRetries == 3
\* HTTP statuses
OK == 200
NoContent == 204
Redirect == 302
Forbidden == 403
RateLimited == 429
ServerError == 500

\* req.query["state"] / req.signedCookies.clientState that is undefined
Undefined == 0
\* cookie-parser yields false for a signed cookie whose signature is wrong
Tampered == 0 - 1
\* a state string the server never generated
Forged == 0 - 2
\* the ttl of an entry that is never dropped (store.set, client.set)
Never == 0 - 1
\* the exp of a token set whose expires_at lies in the past
Past == 0 - 1

Users == 1..NUsers
Subjects == 1..NSubjects
StateTokens == 1..MaxStates
Statuses == {OK, RateLimited, ServerError}
\* expires_in answered by the Discord token endpoint: under 600 s, 4200 s
ExpiresIn == {0, 7}
\* expires_in answered by the ScoutID token endpoint: under 600 s. No code
\* reads the stored expires_at of a ScoutID token set, so a longer lifetime
\* adds no behaviour.
ScoutIDExpiresIn == {0}
\* the revisions of server.js, discord.js and storage.js that run together,
\* <<server, Discord client, storage>>: server.js calls
\* discord.checkBotPermissions, which only part_002 exports, and the ScoutNet
\* cache functions, which only the Redis storage exports
Deployments ==
  { <<"server.js", "part_002", "redis">>,
    <<"part_006", "part_003", "redis">>,
    <<"part_006", "part_003", "memory">> }

VARIABLES
  srv,            \* revision of the server
  dsc,            \* revision of the Discord client
  sto,            \* revision of the storage module
  handled,        \* the number of requests received so far
  nextState,      \* the next fresh crypto.randomUUID() correlation token
  discordTokens,  \* store family discord-<userId>
  stateData,      \* store family state-<correlationToken>
  scoutidTokens,  \* store family scoutid-<subjectId>
  discordLink,    \* store family discord-link-<userId>
  scoutnetCache,  \* store key scoutnet-participants: its ttl, 0 when absent
  participants,   \* store key scoutnet-participants: the entry of the member
                  \* the sync looks up in the cached list
  consumed,       \* correlation tokens a ScoutID callback has linked with
  cookies,        \* the browsers' side: for each correlation token the
                  \* clientState cookie /discord-oauth-callback set for it
  cur,            \* the request that is running, or the last one finished
  parked          \* a request suspended at an await while another one runs

vars ==
  <<srv, dsc, sto, handled, nextState, discordTokens, stateData, scoutidTokens,
    discordLink, scoutnetCache, participants, consumed, cookies, cur, parked>>

\* ------------------------------------------------------------ data values
\* a Discord token set: whose it is, the time left to its expires_at, the
\* expires_in it was issued with, the time left to the entry
NoDiscordTokens == [owner |-> 0, exp |-> 0, expires_in |-> 0, ttl |-> 0]
NoStateData == [discordUserId |-> 0, codeVerifier |-> 0, ttl |-> 0]
NoScoutIDTokens ==
  [discord_user_id |-> 0, subject |-> 0, code_verifier |-> 0, exp |-> 0,
   ttl |-> 0]
NoCode == [who |-> 0, verifier |-> 0]
\* a cookie: the seconds left of its maxAge, and the status of the response
\* that carried it
NoCookie == [left |-> 0, status |-> 0]
NoAccess == [owner |-> 0, exp |-> 0]

\* What a run of the sync came to and sent, kept by a caller that runs it
\* once more
NoRun == [sync |-> "none", puts |-> {}, upstream |-> "none", pushUser |-> 0,
          refreshed |-> FALSE]

\* An authorize URL, by its endpoint and the query parameters that matter
NoUrl ==
  [endpoint |-> "none", response_type |-> "none", state |-> Undefined,
   nonce |-> Undefined, code_challenge |-> <<>>, code_challenge_method |-> "none"]

\* discord.getOAuthUrl(): the URL for a new state
DiscordOAuthUrl(state) ==
  [NoUrl EXCEPT !.endpoint = "discord.com/api/oauth2/authorize",
                !.response_type = "code", !.state = state]

\* createHash('sha256').update(codeVerifier): the digest, as the 6-bit groups
\* base64 encodes.  One group stands for those that depend on the input; 62
\* and 63 are the two groups the base64 and base64url alphabets differ on.
Sha256(codeVerifier) == <<codeVerifier, 62, 63>>
Letters == <<"A", "B", "C", "D", "E", "F", "G", "H">>
\* .digest('base64'): the standard alphabet; the 32 bytes of a digest end in
\* a group of two bytes, padded with one '='
Base64(groups) ==
  [i \in 1..Len(groups) |->
     IF groups[i] = 62 THEN "+" ELSE IF groups[i] = 63 THEN "/"
     ELSE Letters[groups[i] + 1]] \o <<"=">>
\* .replace(/\+/g, '-'), .replace(/\//g, '_')
ReplaceAll(str, from, to) ==
  [i \in 1..Len(str) |-> IF str[i] = from THEN to ELSE str[i]]
\* .replace(/=+$/, ''): the trailing run of '=' is removed
RECURSIVE StripPadding(_)
StripPadding(str) ==
  IF str # <<>> /\ str[Len(str)] = "="
  THEN StripPadding(SubSeq(str, 1, Len(str) - 1)) ELSE str
\* a challenge that keeps the padding of the base64 digest
PaddedChallenge(codeVerifier) ==
  ReplaceAll(ReplaceAll(Base64(Sha256(codeVerifier)), "+", "-"), "/", "_")
\* codeChallenge: the base64 digest of the verifier, made URL-safe
S256(codeVerifier) ==
  StripPadding(
    ReplaceAll(ReplaceAll(Base64(Sha256(codeVerifier)), "+", "-"), "/", "_"))

\* an authorization request without PKCE
UrlWithoutChallenge(state, nonce, codeVerifier) ==
  [NoUrl EXCEPT !.endpoint = "scoutid.se/simplesaml/module.php/oidc/authorize.php",
                !.response_type = "code", !.state = state, !.nonce = nonce]

\* scoutid.getOidcAuthorizationUrl(): the URL for a new state, nonce and code
\* verifier
OidcAuthorizationUrl(state, nonce, codeVerifier) ==
  [NoUrl EXCEPT !.endpoint = "scoutid.se/simplesaml/module.php/oidc/authorize.php",
                !.response_type = "code", !.state = state, !.nonce = nonce,
                !.code_challenge = S256(codeVerifier),
                !.code_challenge_method = "S256"]

\* A run of retryWithBackoff(fn): the outcome of each call of fn in order (OK
\* for a return, else error.status, 0 for an error without status), the delays
\* slept in order, and the way out of the loop.
NoLoop == [seen |-> <<>>, delays |-> <<>>, out |-> "none"]

\* metadata objects: {} , the value undefined, and a filled object
\* The keys of the registered schema.  A metadata object holds under `fields`
\* the JSON value of each; "undefined" is the value of a property that was
\* never assigned or was assigned undefined.
SchemaKeys == {"accepted", "leader", "ist", "troop", "patrol"}
NoFields == [k \in SchemaKeys |-> "undefined"]
EmptyMetadata == [kind |-> "empty", of |-> 0, fields |-> NoFields]
UndefinedMetadata == [kind |-> "undefined", of |-> 0, fields |-> NoFields]
\* participants that read back from the cache in another shape than fetched
MetadataByOrigin(s) ==
  [kind |-> IF scoutnetCache = 0 THEN "full" ELSE "cached", of |-> s,
   fields |-> NoFields]
\* the object a try block assigned: part_006 fills it with scoutid, email and
\* name of the profile of s, server.js with the schema keys (BuildMetadata)
FullMetadata(s) == [kind |-> "full", of |-> s, fields |-> NoFields]

\* The questions of the registration form that getUserData reads, and the
\* answer that stands for yes
TroopQuestion == 82552
LeaderQuestion == 82553
PatrolQuestion == 82554
IstQuestion == 82555
QuestionIds == {TroopQuestion, LeaderQuestion, PatrolQuestion, IstQuestion}
Yes == "55897"
\* What questions[id] can read: nothing, yes, another answer, a blank one
Answers == {"undefined", Yes, "1", ""}
\* participant_data["questions"]: no map (null or absent), or a map; a map
\* reads "undefined" for a question it has no answer to
NoQuestions == [map |-> FALSE, answers |-> [q \in QuestionIds |-> "undefined"]]
Questions ==
  {NoQuestions} \cup [map : {TRUE}, answers : [QuestionIds -> Answers]]

\* The entry of a member in the participants list of ScoutNet: not listed;
\* listed, not cancelled, the leader question answered yes, the troop
\* question answered, the others not; listed, cancelled, without questions.
NoParticipant ==
  [listed |-> FALSE, cancelled_date |-> "null", questions |-> NoQuestions]
Participants ==
  {NoParticipant,
   [listed |-> TRUE, cancelled_date |-> "null",
    questions |-> [map |-> TRUE,
                   answers |-> [q \in QuestionIds |->
                                  IF q = LeaderQuestion THEN Yes
                                  ELSE IF q = TroopQuestion THEN "1"
                                  ELSE "undefined"]]],
   [listed |-> TRUE, cancelled_date |-> "2025-07-01", questions |-> NoQuestions]}
\* every entry the list can hold for a member: cancelled_date null, absent
\* or a date, and any questions
AllParticipants ==
  {NoParticipant}
  \cup [listed : {TRUE}, cancelled_date : {"null", "undefined", "2025-07-01"},
        questions : Questions]
Bool(b) == IF b THEN "true" ELSE "false"
\* x || 0
OrZero(x) == IF x \in {"undefined", "null", ""} THEN "0" ELSE x
\* a getUserData that leaves a missing answer null
NullForMissing(participant_data) ==
  IF participant_data.listed
  THEN LET questions == participant_data.questions
       IN [is_participant |->
             Bool(participant_data.cancelled_date \in {"null", "undefined"}),
           is_leader |-> Bool(questions.map
                              /\ questions.answers[LeaderQuestion] = Yes),
           is_ist |-> Bool(questions.map
                           /\ questions.answers[IstQuestion] = Yes),
           troop |-> IF questions.map
                        /\ questions.answers[TroopQuestion] # "undefined"
                     THEN questions.answers[TroopQuestion] ELSE "null",
           patrol |-> IF questions.map
                         /\ questions.answers[PatrolQuestion] # "undefined"
                      THEN questions.answers[PatrolQuestion] ELSE "null"]
  ELSE [is_participant |-> "false", is_leader |-> "false", is_ist |-> "false",
        troop |-> "null", patrol |-> "null"]
\* scoutnet.getUserData(member_id), from the entry getParticipant returned;
\* cancelled_date == null holds for null and for an absent property
ScoutnetUserData(participant_data) ==
  IF participant_data.listed
  THEN LET questions == participant_data.questions
       IN [is_participant |->
             Bool(participant_data.cancelled_date \in {"null", "undefined"}),
           is_leader |-> IF questions.map
                         THEN Bool(questions.answers[LeaderQuestion] = Yes)
                         ELSE "false",
           is_ist |-> IF questions.map
                      THEN Bool(questions.answers[IstQuestion] = Yes)
                      ELSE "false",
           troop |-> IF questions.map
                     THEN OrZero(questions.answers[TroopQuestion])
                     ELSE "null",
           patrol |-> IF questions.map
                      THEN OrZero(questions.answers[PatrolQuestion])
                      ELSE "null"]
  ELSE [is_participant |-> "false", is_leader |-> "false", is_ist |-> "false",
        troop |-> "null", patrol |-> "null"]
\* obj[key] of JavaScript
Get(obj, key) == IF key \in DOMAIN obj THEN obj[key] ELSE "undefined"
\* metadata = {accepted: scoutNetData.is_accepted, ...} of updateMetadata
BuildMetadata(scoutNetData) ==
  [accepted |-> Get(scoutNetData, "is_accepted"),
   leader |-> Get(scoutNetData, "is_leader"),
   ist |-> Get(scoutNetData, "is_ist"),
   troop |-> Get(scoutNetData, "troop"),
   patrol |-> Get(scoutNetData, "patrol")]
\* the keys JSON.stringify writes for a metadata object: a property whose
\* value is undefined is left out
Stringify(metadata) ==
  {k \in SchemaKeys : metadata.fields[k] # "undefined"}

\* a store that keeps every entry for good
NoExpiry(seconds) == Never
\* client.setEx(key, seconds, ...) against store.set(key, ...)
Expiry(seconds) == IF sto = "redis" THEN seconds ELSE Never

Idle ==
  [handler |-> "none", pc |-> "done", status |-> 0,
   state |-> Undefined, match |-> FALSE, noCookie |-> FALSE, hadState |-> FALSE,
   replay |-> FALSE, code |-> NoCode,
   tokens |-> NoAccess, userId |-> 0, discordUserId |-> 0, codeVerifier |-> 0,
   newState |-> 0,
   syncUser |-> 0, linked |-> FALSE, sDiscord |-> NoDiscordTokens,
   sScoutID |-> NoScoutIDTokens, metadata |-> UndefinedMetadata, upstream |-> "none",
   pushUser |-> 0, access |-> NoAccess, attempt |-> 0, rattempt |-> 0,
   expired |-> FALSE, pushes |-> 0,
   nExchange |-> 0, exVerifier |-> 0, nProfile |-> 0, nUpstream |-> 0,
   nRefresh |-> 0, nRefreshed |-> 0, nPut |-> 0, puts |-> {},
   stored |-> NoDiscordTokens, wrote |-> {}, err |-> "none", sync |-> "none",
   loop |-> NoLoop, rloop |-> NoLoop,
   nick |-> "none", guilds |-> 0, nTried |-> 0, failedAt |-> 0,
   failed |-> FALSE, setCookie |-> Undefined, location |-> NoUrl,
   again |-> FALSE, first |-> NoRun, reqUserId |-> Undefined,
   configured |-> FALSE, nGuildsQuery |-> 0, unpermitted |-> FALSE,
   name |-> <<>>, nickname |-> <<>>]

Busy == cur.pc # "done"

\* a provider has answered a call of this request with an error
Failed(c) == [c EXCEPT !.failed = TRUE]

\* The handler has responded: its scratch locals are gone.
Finish(c, status) ==
  [c EXCEPT !.pc = "done", !.status = status, !.code = NoCode,
            !.attempt = 0, !.rattempt = 0]

\* No request is being handled and none has left its locals behind.
Ready == cur = Idle

\* The response has gone out and the handler has returned: its locals are
\* dropped, and the server takes the next request.
Close ==
  /\ ~Busy
  /\ cur # Idle
  /\ cur' = Idle
  /\ UNCHANGED <<parked, cookies, srv, dsc, sto, handled, nextState, discordTokens, stateData,
                 scoutidTokens, discordLink, scoutnetCache, participants,
                 consumed>>

\* The awaits in front of a step that reads or writes the store or sends the
\* role connection PUT.  The other awaits are in front of a call that gives a
\* provider values of the request itself and keeps the answer in the request:
\* such a step commutes with every step of another request, so that leaving
\* the handler there reaches no state of the store that these do not reach.
StoreAwaits ==
  {"s_profile", "s_link", "sync_read", "sync_scoutnet", "push_refresh",
   "push_put", "nick", "nick_profile"}

\* Node runs one handler at a time and leaves it only at an await: the
\* running request is suspended there and another one is resumed or taken.
Switch ==
  /\ cur.pc \in StoreAwaits \/ (cur = Idle /\ parked # Idle)
  /\ cur' = parked
  /\ parked' = cur
  /\ UNCHANGED <<cookies, srv, dsc, sto, handled, nextState, discordTokens, stateData,
                 scoutidTokens, discordLink, scoutnetCache, participants,
                 consumed>>

Init ==
  /\ \E d \in Deployments : srv = d[1] /\ dsc = d[2] /\ sto = d[3]
  /\ handled = 0
  /\ nextState = 1
  /\ discordTokens = [u \in Users |-> NoDiscordTokens]
  /\ stateData = [s \in StateTokens |-> NoStateData]
  /\ scoutidTokens = [s \in Subjects |-> NoScoutIDTokens]
  /\ discordLink = [u \in Users |-> 0]
  /\ scoutnetCache = 0
  /\ participants = NoParticipant
  /\ consumed = {}
  /\ cookies = [s \in StateTokens |-> NoCookie]
  /\ cur = Idle
  /\ parked = Idle

\* --------------------------------------------------------------- the clock
Min(S) == CHOOSE x \in S : \A y \in S : x <= y

\* The spans after which something changes: an entry is dropped (ttl runs
\* out) or Date.now() > expires_at starts to hold (exp falls below zero).
Deadlines ==
  {discordTokens[u].ttl : u \in {v \in Users : discordTokens[v].ttl > 0}}
  \cup {discordTokens[u].exp + 1 :
          u \in {v \in Users : discordTokens[v].owner # 0 /\ discordTokens[v].exp >= 0}}
  \cup {stateData[s].ttl : s \in {x \in StateTokens : stateData[x].ttl > 0}}
  \cup {scoutidTokens[s].ttl : s \in {x \in Subjects : scoutidTokens[x].ttl > 0}}
  \cup {scoutidTokens[s].exp + 1 :
          s \in {x \in Subjects : scoutidTokens[x].subject # 0 /\ scoutidTokens[x].exp >= 0}}
  \cup {scoutnetCache : x \in {y \in {0} : scoutnetCache > 0}}

AgeTtl(ttl, dt) == IF ttl = Never THEN Never ELSE ttl - dt
AgeExp(exp, dt) == IF exp - dt < 0 THEN Past ELSE exp - dt

\* Redis drops a key once its ttl has run out.
AgeDiscord(e, dt) ==
  IF e.owner = 0 \/ AgeTtl(e.ttl, dt) = 0 THEN NoDiscordTokens
  ELSE [e EXCEPT !.ttl = AgeTtl(@, dt), !.exp = AgeExp(@, dt)]
AgeState(e, dt) ==
  IF e.discordUserId = 0 \/ AgeTtl(e.ttl, dt) = 0 THEN NoStateData
  ELSE [e EXCEPT !.ttl = AgeTtl(@, dt)]
AgeScoutID(e, dt) ==
  IF e.subject = 0 \/ AgeTtl(e.ttl, dt) = 0 THEN NoScoutIDTokens
  ELSE [e EXCEPT !.ttl = AgeTtl(@, dt), !.exp = AgeExp(@, dt)]

\* a cookie the browser keeps for good
KeepCookie(c, dt) == c
\* The browser drops the clientState cookie of the ScoutID leg once its
\* maxAge has run out.
AgeCookie(c, dt) ==
  IF c.left - dt * UnitSeconds > 0 THEN [c EXCEPT !.left = @ - dt * UnitSeconds]
  ELSE NoCookie

Tick ==
  /\ Ready
  /\ Deadlines # {}
  /\ LET dt == Min(Deadlines)
     IN /\ discordTokens' = [u \in Users |-> AgeDiscord(discordTokens[u], dt)]
        /\ stateData' = [s \in StateTokens |-> AgeState(stateData[s], dt)]
        /\ scoutidTokens' = [s \in Subjects |-> AgeScoutID(scoutidTokens[s], dt)]
        /\ scoutnetCache' = IF scoutnetCache > 0 THEN scoutnetCache - dt ELSE 0
        /\ participants' = IF scoutnetCache > 0 /\ scoutnetCache - dt = 0
                           THEN NoParticipant ELSE participants
        /\ cookies' = [s \in StateTokens |-> AgeCookie(cookies[s], dt)]
  /\ cur' = Idle
  /\ UNCHANGED <<parked, srv, dsc, sto, handled, nextState, discordLink, consumed>>

\* ------------------------------------------------------------ /linked-role
\* The values a client can present as the signed clientState cookie: every
\* token the server has signed so far, no cookie, or a cookie that fails the
\* signature check.
SignedValues == 1..(nextState - 1)
CookieValues == SignedValues \cup {Undefined, Tampered}
\* The values a client can present as ?state=: a token the server generated,
\* no parameter, or a string of its own.
StateValues == SignedValues \cup {Undefined, Forged}

\* What the request presented, as the handler's record keeps it.
Request(handler, state, cookie, code) ==
  [Idle EXCEPT !.handler = handler, !.pc = "start",
               !.state = IF cookie = state THEN state ELSE Undefined,
               !.match = (cookie = state),
               !.noCookie = (cookie \notin SignedValues),
               !.code = code]

LinkedRole ==
  /\ Ready
  /\ handled < MaxRequests
  /\ handled' = handled + 1
  /\ nextState <= MaxStates
  /\ nextState' = nextState + 1
  /\ cur' = [Idle EXCEPT !.handler = "linked-role", !.status = Redirect,
                         !.newState = nextState, !.setCookie = nextState,
                         !.location = DiscordOAuthUrl(nextState)]
  /\ UNCHANGED <<parked, cookies, srv, dsc, sto, discordTokens, stateData, scoutidTokens,
                 discordLink, scoutnetCache, participants,
                 consumed>>

\* ------------------------------------------------ retryWithBackoff's catch
\* part_003 wraps every Discord request in retryWithBackoff; part_002 has no
\* wrapper, so that any failing response throws at once.
\* a loop that goes round on any failure
RetryAnyFailure(status, attempt) ==
  /\ dsc = "part_003"
  /\ status # OK
  /\ attempt < MaxRetries - 1

\* a loop with no bound on the attempts
RetryAlways(status, attempt) ==
  /\ dsc = "part_003"
  /\ status = RateLimited

Retryable(status, attempt) ==
  /\ dsc = "part_003"
  /\ status = RateLimited
  /\ attempt < MaxRetries - 1

\* a delay that does not grow with the attempt
FlatBackoff(attempt) == 1000

\* const delay = Math.pow(2, attempt) * 1000
Backoff(attempt) == (2 ^ attempt) * 1000

\* the run that the next call of fn belongs to: the one under way, or a new one
Cont(l) == IF l.out = "running" THEN l ELSE [NoLoop EXCEPT !.out = "running"]

\* fn() returned
Returned(l) ==
  [Cont(l) EXCEPT !.seen = Append(@, OK), !.out = "returned"]

\* fn() threw an error with this status: sleep and go round, or rethrow
Caught(l, status, attempt) ==
  IF Retryable(status, attempt)
  THEN [Cont(l) EXCEPT !.seen = Append(@, status),
                       !.delays = Append(@, Backoff(attempt))]
  ELSE [Cont(l) EXCEPT !.seen = Append(@, status), !.out = "threw"]

\* ------------------------------------------------- /discord-oauth-callback
\* a check that lets every request through
AnyStateVerified(clientState, state) == TRUE
\* a check that lets a request without a cookie through
UndefinedVerified(clientState, state) ==
  clientState = state \/ clientState = Undefined
\* a check that lets a cookie with a wrong signature through
TamperedVerified(clientState, state) ==
  clientState = state \/ clientState = Tampered

\* clientState !== discordState, negated
StateVerified(clientState, state) == clientState = state

\* The server tells Discord users apart only by what the store holds under
\* their ids, so the users it holds nothing of are interchangeable: the next
\* one to turn up is given the least id not yet in the store.  The same goes
\* for ScoutID subjects.
Known(u) ==
  \/ discordTokens[u] # NoDiscordTokens \/ discordLink[u] # 0
  \/ \E s \in StateTokens : stateData[s].discordUserId = u
  \/ \E s \in Subjects : scoutidTokens[s].discord_user_id = u
Visitors == {u \in Users : Known(u) \/ \A v \in 1..(u - 1) : Known(v)}
KnownSubject(s) ==
  scoutidTokens[s] # NoScoutIDTokens \/ \E u \in Users : discordLink[u] = s
Logins ==
  {s \in Subjects : KnownSubject(s) \/ \A v \in 1..(s - 1) : KnownSubject(v)}

\* A Discord authorization code: the user who approved it, or no valid code.
DiscordCodes == [who : Users, verifier : {0}] \cup {NoCode}

DiscordStart(state, cookie, code) ==
  /\ Ready
  /\ code.who \in Visitors \cup {0}
  /\ handled < MaxRequests
  /\ handled' = handled + 1
  /\ StateVerified(cookie, state) => nextState <= MaxStates
  /\ cur' = LET c == Request("discord-cb", state, cookie, code)
            IN IF StateVerified(cookie, state)
               THEN [c EXCEPT !.pc = "d_exchange"]
               ELSE Finish(c, Forbidden)
  /\ UNCHANGED <<parked, cookies, srv, dsc, sto, nextState, discordTokens, stateData,
                 scoutidTokens, discordLink, scoutnetCache, participants,
                 consumed>>

\* discord.getOAuthTokens(code): POST /oauth2/token, grant authorization_code.
\* Discord answers 200 only to a code it issued.
DiscordExchange(r, e) ==
  /\ cur.pc = "d_exchange"
  /\ r = OK => cur.code.who \in Users
  /\ cur' = IF r = OK
            THEN [cur EXCEPT !.pc = "d_profile", !.attempt = 0,
                             !.nExchange = @ + 1, !.loop = Returned(@),
                             !.tokens = [owner |-> cur.code.who, exp |-> e]]
            ELSE IF Retryable(r, cur.attempt)
            THEN [Failed(cur) EXCEPT !.attempt = @ + 1, !.nExchange = @ + 1,
                                     !.loop = Caught(@, r, cur.attempt)]
            ELSE Finish([Failed(cur) EXCEPT !.nExchange = @ + 1,
                                            !.err = "exchange",
                                            !.loop = Caught(@, r, cur.attempt)],
                        ServerError)
  /\ UNCHANGED <<parked, cookies, srv, dsc, sto, handled, nextState, discordTokens, stateData,
                 scoutidTokens, discordLink, scoutnetCache, participants,
                 consumed>>

\* discord.getUserData(tokens); then the token set is stored under the
\* profile's user id, getOidcAuthorizationUrl() draws a fresh state and code
\* verifier, and the cookie is put on the response.
DiscordProfile(r) ==
  /\ cur.pc = "d_profile"
  /\ IF r = OK
     THEN LET userId == cur.tokens.owner
              state == nextState
              nonce == nextState
              codeVerifier == nextState
              set == [owner |-> cur.tokens.owner, exp |-> cur.tokens.exp,
                      expires_in |-> cur.tokens.exp, ttl |-> Expiry(TokenTTL)]
          IN /\ discordTokens' = [discordTokens EXCEPT ![userId] = set]
             /\ nextState' = nextState + 1
             /\ cur' = [cur EXCEPT !.pc = "d_state",
                                   !.nProfile = @ + 1, !.userId = userId,
                                   !.loop = Returned(@),
                                   !.newState = state,
                                   !.codeVerifier = codeVerifier,
                                   !.setCookie = state,
                                   !.stored = set,
                                   !.wrote = @ \cup {"discord"}]
     ELSE /\ cur' = IF Retryable(r, cur.attempt)
                    THEN [Failed(cur) EXCEPT !.attempt = @ + 1,
                                             !.nProfile = @ + 1,
                                             !.loop = Caught(@, r, cur.attempt)]
                    ELSE Finish([Failed(cur) EXCEPT
                                   !.nProfile = @ + 1, !.err = "profile",
                                   !.loop = Caught(@, r, cur.attempt)],
                                ServerError)
          /\ UNCHANGED <<nextState, discordTokens>>
  /\ UNCHANGED <<parked, cookies, srv, dsc, sto, handled, stateData, scoutidTokens,
                 discordLink, scoutnetCache, participants, consumed>>

\* a handler that redirects whether or not the LinkState was stored
RedirectAnyway(r) ==
  /\ cur.pc = "d_state"
  /\ stateData' = IF r = OK
                  THEN [stateData EXCEPT ![cur.newState] =
                          [discordUserId |-> cur.userId,
                           codeVerifier |-> cur.codeVerifier,
                           ttl |-> Expiry(StateTTL)]]
                  ELSE stateData
  /\ cur' = Finish([cur EXCEPT !.location = OidcAuthorizationUrl(
                                   cur.newState, cur.newState, cur.codeVerifier),
                               !.err = IF r = OK THEN @ ELSE "store-state",
                               !.wrote = IF r = OK THEN @ \cup {"state"} ELSE @],
                   Redirect)
  /\ cookies' = [cookies EXCEPT ![cur.newState] =
                   [left |-> CookieMaxAge, status |-> Redirect]]
  /\ UNCHANGED <<parked, srv, dsc, sto, handled, nextState, discordTokens,
                 scoutidTokens, discordLink, scoutnetCache, participants,
                 consumed>>

\* await storage.storeStateData(state, {discordUserId, codeVerifier}), then
\* res.redirect(url); when the store call throws, the catch block answers 500.
\* Either response carries the cookie that res.cookie has put on it.
DiscordState(r) ==
  /\ cur.pc = "d_state"
  /\ IF r = OK
     THEN /\ stateData' = [stateData EXCEPT ![cur.newState] =
                             [discordUserId |-> cur.userId,
                              codeVerifier |-> cur.codeVerifier,
                              ttl |-> Expiry(StateTTL)]]
          /\ cur' = Finish([cur EXCEPT !.location = OidcAuthorizationUrl(
                                           cur.newState, cur.newState,
                                           cur.codeVerifier),
                                       !.wrote = @ \cup {"state"}],
                           Redirect)
     ELSE /\ cur' = Finish([cur EXCEPT !.err = "store-state"], ServerError)
          /\ UNCHANGED stateData
  /\ cookies' = [cookies EXCEPT ![cur.newState] =
                   [left |-> CookieMaxAge,
                    status |-> IF r = OK THEN Redirect ELSE ServerError]]
  /\ UNCHANGED <<parked, srv, dsc, sto, handled, nextState, discordTokens,
                 scoutidTokens, discordLink, scoutnetCache, participants,
                 consumed>>

\* ------------------------------------------------------------------- sync
\* updateMetadata (server.js), getMetadata + updateMetadata (part_006).
\* The way out of the sync: both routes answer 500 when it throws; when it
\* returns, /update-metadata answers 204 and the ScoutID callback goes on to
\* the nickname sync.  A direct call has no response.
SyncThrow(c, why) ==
  Finish([c EXCEPT !.err = why, !.sync = "threw"],
         IF c.handler = "sync" THEN 0 ELSE ServerError)

SyncReturn(c, result) ==
  IF c.handler = "scoutid-cb"
  THEN [c EXCEPT !.pc = "nick", !.sync = result]
  ELSE IF c.again
  THEN [Idle EXCEPT !.handler = c.handler, !.pc = "sync_read",
                    !.syncUser = c.syncUser, !.failed = c.failed,
                    !.first = [sync |-> result, puts |-> c.puts,
                               upstream |-> c.upstream, pushUser |-> c.pushUser,
                               refreshed |-> c.nRefreshed > 0]]
  ELSE Finish([c EXCEPT !.sync = result],
              IF c.handler = "sync" THEN 0 ELSE NoContent)

\* storage.getDiscordTokens / getLinkedScoutIDUserId / getScoutIDTokens /
\* getStateData: the entry, or null
ReadDiscord(userId) ==
  IF userId \in Users THEN discordTokens[userId] ELSE NoDiscordTokens
ReadLink(userId) ==
  IF userId \in Users THEN discordLink[userId] ELSE 0
\* a lookup answered with the token set of the lowest subject in the store
ReadOldestScoutID(subject) ==
  IF subject \in Subjects
  THEN scoutidTokens[Min({s \in Subjects : scoutidTokens[s] # NoScoutIDTokens}
                         \cup {subject})]
  ELSE NoScoutIDTokens
ReadScoutID(subject) ==
  IF subject \in Subjects THEN scoutidTokens[subject] ELSE NoScoutIDTokens
\* a lookup that never misses
ReadAnyState(state) == [discordUserId |-> 1, codeVerifier |-> 1, ttl |-> Never]
ReadState(state) ==
  IF state \in StateTokens THEN stateData[state] ELSE NoStateData
\* whether the store holds a LinkState under state-<state>
StateStored(state) ==
  state \in StateTokens /\ stateData[state] # NoStateData

\* an attempt that goes on to the PUT when there is no token set
PutWithoutTokens(c) ==
  IF c.sDiscord.exp < 0
  THEN [c EXCEPT !.pc = "push_refresh", !.rattempt = 0, !.expired = TRUE]
  ELSE [c EXCEPT !.pc = "push_put",
                 !.access = [owner |-> c.sDiscord.owner, exp |-> c.sDiscord.exp]]

\* discord.getAccessToken(userId, tokens), at the start of every attempt of
\* the function pushMetadata retries: reading tokens.expires_at of null throws
\* a TypeError, which carries no status.
EnterAttempt(c) ==
  IF c.sDiscord.owner = 0
  THEN SyncThrow([c EXCEPT !.loop = Caught(@, 0, c.attempt)], "no-discord-tokens")
  ELSE IF c.sDiscord.exp < 0
  THEN [c EXCEPT !.pc = "push_refresh", !.rattempt = 0, !.expired = TRUE]
  ELSE [c EXCEPT !.pc = "push_put",
                 !.access = [owner |-> c.sDiscord.owner, exp |-> c.sDiscord.exp]]

\* a sync that settles the metadata and sends nothing
SkipPush(c, metadata, upstream) == SyncReturn(c, "noop")

\* The metadata is settled; the log line and the call of discord.pushMetadata.
\* server.js reads scoutIDTokens.discord_user_id, outside the try block;
\* part_006 pushes for userId and reads the Discord token set only now.
BeginPush(c, metadata, upstream) ==
  LET c1 == [c EXCEPT !.metadata = metadata, !.upstream = upstream]
  IN IF srv = "server.js"
     THEN IF c.sScoutID.subject = 0
          THEN SyncThrow(c1, "scoutid-tokens-null")
          ELSE EnterAttempt([c1 EXCEPT !.pushUser = c.sScoutID.discord_user_id,
                                       !.pushes = @ + 1])
     ELSE EnterAttempt([c1 EXCEPT !.pushUser = c.syncUser, !.pushes = @ + 1,
                                  !.sDiscord = ReadDiscord(c.syncUser)])

\* a catch block that keeps what the try block would have assigned
KeepMetadata(c) == FullMetadata(c.sScoutID.subject)
\* catch (e) { metadata = {} }
CatchMetadata(c) == EmptyMetadata

\* The store reads that open the sync, and the missing-link case.
SyncRead ==
  /\ cur.pc = "sync_read"
  /\ LET userId == cur.syncUser
         scoutId == ReadLink(userId)
         c == [cur EXCEPT !.sync = "running", !.linked = (scoutId # 0),
                          !.sDiscord = IF srv = "server.js" THEN ReadDiscord(userId)
                                       ELSE NoDiscordTokens,
                          !.sScoutID = ReadScoutID(scoutId)]
     IN cur' = IF scoutId # 0 THEN [c EXCEPT !.pc = "sync_scoutid"]
               ELSE IF srv = "server.js" THEN SyncReturn(c, "noop")
               ELSE BeginPush(c, UndefinedMetadata, "none")
  /\ UNCHANGED <<parked, cookies, srv, dsc, sto, handled, nextState, discordTokens, stateData,
                 scoutidTokens, discordLink, scoutnetCache, participants,
                 consumed>>

\* scoutid.getUserData(scoutIDTokens): GET userinfo with tokens.access_token.
\* Null tokens throw a TypeError before any request; both are caught.
SyncScoutid(r) ==
  /\ cur.pc = "sync_scoutid"
  /\ cur' = IF cur.sScoutID.subject = 0
            THEN BeginPush(cur, CatchMetadata(cur), "typeerror")
            ELSE LET c == [cur EXCEPT !.nUpstream = @ + 1]
                 IN IF r # OK
                    THEN BeginPush(Failed(c), CatchMetadata(c), "threw")
                    ELSE IF srv = "server.js" THEN [c EXCEPT !.pc = "sync_scoutnet"]
                    ELSE BeginPush(c, FullMetadata(cur.sScoutID.subject), "ok")
  /\ UNCHANGED <<parked, cookies, srv, dsc, sto, handled, nextState, discordTokens, stateData,
                 scoutidTokens, discordLink, scoutnetCache, participants,
                 consumed>>

\* scoutnet.getUserData(scoutIDdata.scoutid): the participants come from the
\* store's cache when it holds them, else from ScoutNet, and are then cached.
SyncScoutnet(r, listed) ==
  /\ cur.pc = "sync_scoutnet"
  /\ LET full(p) == [FullMetadata(cur.sScoutID.subject) EXCEPT
                       !.fields = BuildMetadata(ScoutnetUserData(p))]
     IN IF scoutnetCache # 0
        THEN /\ cur' = BeginPush(cur, full(participants), "ok")
             /\ UNCHANGED <<scoutnetCache, participants>>
        ELSE IF r = OK
        THEN /\ cur' = BeginPush([cur EXCEPT !.nUpstream = @ + 1],
                                 full(listed), "ok")
             /\ scoutnetCache' = Expiry(CacheTTL)
             /\ participants' = listed
        ELSE /\ cur' = LET c == [Failed(cur) EXCEPT !.nUpstream = @ + 1]
                       IN BeginPush(c, CatchMetadata(c), "threw")
             /\ UNCHANGED <<scoutnetCache, participants>>
  /\ UNCHANGED <<parked, cookies, srv, dsc, sto, handled, nextState, discordTokens, stateData,
                 scoutidTokens, discordLink, consumed>>

\* a refresh failure answered by going on with the access token at hand
FallBackToStale(c, r) ==
  [c EXCEPT !.pc = "push_put",
            !.access = [owner |-> c.sDiscord.owner, exp |-> c.sDiscord.exp]]

\* The refresh request was answered r, not ok: the error is thrown, first to
\* the retry loop around the refresh (part_003), then out of getAccessToken
\* to the retry loop of pushMetadata (part_003), then to the caller.
RefreshFailed(c, r) ==
  LET c1 == [Failed(c) EXCEPT !.rloop = Caught(@, r, c.rattempt)]
      c2 == [c1 EXCEPT !.loop = Caught(@, r, c.attempt)]
  IN IF Retryable(r, c.rattempt)
     THEN [c1 EXCEPT !.rattempt = @ + 1]
     ELSE IF Retryable(r, c.attempt)
     THEN EnterAttempt([c2 EXCEPT !.attempt = @ + 1])
     ELSE SyncThrow(c2, "refresh")

\* a refresh that stores its set only over an expired one
StoreFirstRefresh(r, e) ==
  /\ cur.pc = "push_refresh"
  /\ LET c == [cur EXCEPT !.nRefresh = @ + 1]
         set == [owner |-> cur.sDiscord.owner, exp |-> e, expires_in |-> e,
                 ttl |-> Expiry(TokenTTL)]
     IN IF r = OK
        THEN /\ discordTokens' = IF discordTokens[cur.pushUser].exp < 0
                                 THEN [discordTokens EXCEPT ![cur.pushUser] = set]
                                 ELSE discordTokens
             /\ cur' = [c EXCEPT !.pc = "push_put", !.stored = set,
                                 !.nRefreshed = @ + 1, !.rloop = Returned(@),
                                 !.access = [owner |-> set.owner, exp |-> e],
                                 !.wrote = @ \cup {"discord"}]
        ELSE /\ cur' = RefreshFailed(c, r)
             /\ UNCHANGED discordTokens
  /\ UNCHANGED <<parked, cookies, srv, dsc, sto, handled, nextState, stateData,
                 scoutidTokens, discordLink, scoutnetCache, participants,
                 consumed>>

\* getAccessToken's refresh: POST /oauth2/token, grant refresh_token, with the
\* refresh token of the set pushMetadata was called with.  The new set is
\* stored under userId.  A failure is thrown to pushMetadata's retry loop.
PushRefresh(r, e) ==
  /\ cur.pc = "push_refresh"
  /\ LET c == [cur EXCEPT !.nRefresh = @ + 1]
         set == [owner |-> cur.sDiscord.owner, exp |-> e, expires_in |-> e,
                 ttl |-> Expiry(TokenTTL)]
     IN IF r = OK
        THEN /\ discordTokens' = [discordTokens EXCEPT ![cur.pushUser] = set]
             /\ cur' = [c EXCEPT !.pc = "push_put", !.stored = set,
                                 !.nRefreshed = @ + 1, !.rloop = Returned(@),
                                 !.access = [owner |-> set.owner, exp |-> e],
                                 !.wrote = @ \cup {"discord"}]
        ELSE /\ cur' = RefreshFailed(c, r)
             /\ UNCHANGED discordTokens
  /\ UNCHANGED <<parked, cookies, srv, dsc, sto, handled, nextState, stateData, scoutidTokens, discordLink,
                 scoutnetCache, participants,
                 consumed>>

\* PUT /users/@me/applications/<id>/role-connection with the access token
PushPut(r) ==
  /\ cur.pc = "push_put"
  /\ LET c == [cur EXCEPT !.nPut = @ + 1, !.puts = @ \cup {cur.metadata}]
         c1 == [Failed(c) EXCEPT !.loop = Caught(@, r, cur.attempt)]
     IN cur' = IF r = OK THEN SyncReturn([c EXCEPT !.loop = Returned(@)], "pushed")
               ELSE IF Retryable(r, cur.attempt)
               THEN EnterAttempt([c1 EXCEPT !.attempt = @ + 1])
               ELSE SyncThrow(c1, "put")
  /\ UNCHANGED <<parked, cookies, srv, dsc, sto, handled, nextState, discordTokens, stateData,
                 scoutidTokens, discordLink, scoutnetCache, participants,
                 consumed>>

\* /update-metadata with a Discord user id (or none).  part_006 serves GET
\* and reads req.query.userId.  server.js serves POST and reads
\* req.body.userId; it installs no body parser, so that req.body is undefined
\* and the read throws before updateMetadata is called.
UpdateMetadata(userId) ==
  /\ Ready
  /\ userId \in Visitors \cup {Undefined}
  /\ handled < MaxRequests
  /\ handled' = handled + 1
  /\ cur' = LET c == [Idle EXCEPT !.handler = "update-metadata",
                                  !.reqUserId = userId]
            IN IF srv = "server.js"
               THEN Finish([c EXCEPT !.err = "no-body"], ServerError)
               ELSE [c EXCEPT !.pc = "sync_read", !.syncUser = userId]
  /\ UNCHANGED <<parked, cookies, srv, dsc, sto, nextState, discordTokens, stateData,
                 scoutidTokens, discordLink, scoutnetCache, participants,
                 consumed>>

\* updateMetadata(userId) of server.js, getMetadata(userId) followed by
\* updateMetadata(userId, metadata) of part_006, called with a Discord user id
\* on its own: the sync as an operation, whatever triggers it.
Sync(userId) ==
  /\ Ready
  /\ userId \in Visitors \cup {Undefined}
  /\ handled < MaxRequests
  /\ handled' = handled + 1
  /\ cur' = [Idle EXCEPT !.handler = "sync", !.pc = "sync_read",
                         !.syncUser = userId]
  /\ UNCHANGED <<parked, cookies, srv, dsc, sto, nextState, discordTokens, stateData,
                 scoutidTokens, discordLink, scoutnetCache, participants,
                 consumed>>

\* the sync called twice in succession for one Discord user
SyncTwice(userId) ==
  /\ Ready
  /\ userId \in Visitors \cup {Undefined}
  /\ handled < MaxRequests
  /\ handled' = handled + 1
  /\ cur' = [Idle EXCEPT !.handler = "sync", !.pc = "sync_read",
                         !.syncUser = userId, !.again = TRUE]
  /\ UNCHANGED <<parked, cookies, srv, dsc, sto, nextState, discordTokens, stateData,
                 scoutidTokens, discordLink, scoutnetCache, participants,
                 consumed>>

\* ------------------------------------------------- /scoutid-oauth-callback
\* A ScoutID authorization code: the subject who logged in and the code
\* verifier whose challenge the authorization request carried.  ScoutID
\* issues a new code on every visit of the authorize URL, so that a value
\* stands for any code of that login not yet redeemed.
ScoutIDCodes == [who : Subjects, verifier : SignedValues] \cup {NoCode}

\* Destructuring the null that getStateData returns for a missing entry
\* throws; the cookie is compared only afterwards.
ScoutidStart(state, cookie, code) ==
  /\ Ready
  /\ code.who \in Logins \cup {0}
  /\ handled < MaxRequests
  /\ handled' = handled + 1
  /\ cur' = LET e == ReadState(state)
                c == [Request("scoutid-cb", state, cookie, code) EXCEPT
                        !.hadState = StateStored(state),
                        !.replay = (cookie = state /\ state \in consumed)]
            IN IF e = NoStateData
               THEN Finish([c EXCEPT !.err = "no-linkstate"], ServerError)
               ELSE IF ~StateVerified(cookie, state)
               THEN Finish(c, Forbidden)
               ELSE [c EXCEPT !.pc = "s_exchange",
                              !.discordUserId = e.discordUserId,
                              !.codeVerifier = e.codeVerifier]
  /\ UNCHANGED <<parked, cookies, srv, dsc, sto, nextState, discordTokens, stateData,
                 scoutidTokens, discordLink, scoutnetCache, participants,
                 consumed>>

\* scoutid.getOidcTokens({code, codeVerifier}): no request without a code;
\* ScoutID answers 200 only to a code whose challenge the verifier matches.
ScoutidExchange(r, expires_in) ==
  /\ cur.pc = "s_exchange"
  /\ r = OK => cur.code.who \in Subjects /\ cur.code.verifier = cur.codeVerifier
  /\ cur' = IF cur.code = NoCode
            THEN Finish([Failed(cur) EXCEPT !.err = "exchange"], ServerError)
            ELSE LET c == [cur EXCEPT !.nExchange = @ + 1,
                                      !.exVerifier = cur.codeVerifier]
                 IN IF r = OK
                    THEN [c EXCEPT !.pc = "s_profile",
                                   !.tokens = [owner |-> cur.code.who,
                                               exp |-> expires_in]]
                    ELSE Finish([Failed(c) EXCEPT !.err = "exchange"],
                                ServerError)
  /\ UNCHANGED <<parked, cookies, srv, dsc, sto, handled, nextState, discordTokens, stateData,
                 scoutidTokens, discordLink, scoutnetCache, participants,
                 consumed>>

\* scoutid.getUserData(tokens), then the ScoutID token set is stored under
\* the profile's id, the Identity Link is set and the sync is called.
ScoutidProfile(r) ==
  /\ cur.pc = "s_profile"
  /\ IF r = OK
     THEN LET userId == cur.tokens.owner
          IN /\ scoutidTokens' = [scoutidTokens EXCEPT ![userId] =
                    [discord_user_id |-> cur.discordUserId, subject |-> userId,
                     code_verifier |-> cur.codeVerifier,
                     exp |-> cur.tokens.exp, ttl |-> Expiry(TokenTTL)]]
             /\ cur' = [cur EXCEPT !.pc = "s_link", !.nProfile = @ + 1,
                                   !.userId = userId,
                                   !.wrote = @ \cup {"scoutid"}]
     ELSE /\ cur' = Finish([Failed(cur) EXCEPT !.nProfile = @ + 1,
                                               !.err = "profile"],
                           ServerError)
          /\ UNCHANGED scoutidTokens
  /\ UNCHANGED <<parked, cookies, srv, dsc, sto, handled, nextState, discordTokens, stateData,
                 discordLink, scoutnetCache, participants,
                 consumed>>

\* a link that is written only where none is held: the first writer wins
SetLinkedOnce ==
  /\ cur.pc = "s_link"
  /\ discordLink' = IF discordLink[cur.discordUserId] = 0
                    THEN [discordLink EXCEPT ![cur.discordUserId] = cur.userId]
                    ELSE discordLink
  /\ consumed' = consumed \cup {cur.state}
  /\ cur' = [cur EXCEPT !.pc = "sync_read", !.syncUser = cur.discordUserId,
                        !.wrote = @ \cup {"link"}]
  /\ UNCHANGED <<parked, cookies, srv, dsc, sto, handled, nextState, discordTokens, stateData,
                 scoutidTokens, scoutnetCache,
                 participants>>

\* await storage.setLinkedScoutIDUserId(discordUserId, userId), the statement
\* after the await of storeScoutIDTokens; then the sync is entered
SetLinked ==
  /\ cur.pc = "s_link"
  /\ discordLink' = [discordLink EXCEPT ![cur.discordUserId] = cur.userId]
  /\ consumed' = consumed \cup {cur.state}
  /\ cur' = [cur EXCEPT !.pc = "sync_read", !.syncUser = cur.discordUserId,
                        !.wrote = @ \cup {"link"}]
  /\ UNCHANGED <<parked, cookies, srv, dsc, sto, handled, nextState, discordTokens, stateData,
                 scoutidTokens, scoutnetCache,
                 participants>>

\* --------------------------------------------------------- updateNickname
\* updateMetadata has returned to the callback: its locals, and those of
\* pushMetadata, getAccessToken and retryWithBackoff under it, are gone.
\* The metadata it settled and what it sent and wrote stay on record.
SyncOver(c) ==
  [c EXCEPT !.sDiscord = NoDiscordTokens, !.sScoutID = NoScoutIDTokens,
            !.access = NoAccess,
            !.stored = NoDiscordTokens, !.expired = FALSE,
            !.attempt = 0, !.rattempt = 0,
            !.loop = NoLoop, !.rloop = NoLoop]

\* Texts are sequences of characters.  A word of n characters: the digits
\* of the positions, "1234567890123..."
Digits == <<"0", "1", "2", "3", "4", "5", "6", "7", "8", "9">>
Word(n) == [i \in 1..n |-> Digits[(i % 10) + 1]]
\* String(undefined)
UndefinedText == <<"u", "n", "d", "e", "f", "i", "n", "e", "d">>
\* A userinfo response, by its name claims: without them, or with a given
\* name and a family name
NoClaims == [claims |-> FALSE, given_name |-> <<>>, family_name |-> <<>>]
\* the response the flows are run with: a name of 12 characters
Profiles ==
  {[claims |-> TRUE, given_name |-> Word(5), family_name |-> Word(6)]}
\* the responses the nickname is computed for: also without claims, and
\* with names of 31, 32, 33 and 40 characters
AllProfiles ==
  Profiles \cup {NoClaims}
  \cup [claims : {TRUE}, given_name : {Word(15)},
        family_name : {Word(15), Word(16), Word(17), Word(24)}]

\* a profile without a name
EmptyName(named) == <<>>

\* scoutid.getUserData: name = data.given_name + ' ' + data.family_name, for a
\* userinfo response with or without the two claims; concatenating undefined
\* gives the text "undefined"
ProfileName(named) ==
  IF named.claims THEN named.given_name \o <<" ">> \o named.family_name
  ELSE UndefinedText \o <<" ">> \o UndefinedText

\* the longest nickname Discord takes
MaxNickname == 32
\* a nickname passed on as it is
WholeName(nickname) == nickname
\* if (nickname.length > 32) nickname = nickname.substring(0, 32)
CutNickname(nickname) ==
  IF Len(nickname) > MaxNickname THEN SubSeq(nickname, 1, MaxNickname)
  ELSE nickname

\* updateNickname returns: the callback sends the success page, a direct
\* call has no response
NickReturn(c, how) ==
  Finish([c EXCEPT !.nick = how], IF c.handler = "scoutid-cb" THEN OK ELSE 0)

\* catch (e) { console.error(...) } around the body, and around the guild
\* list and loop: the error is logged and updateNickname returns
NickCaught(c, how) == NickReturn(c, how)

\* a guild loop that ends at the first guild that fails
StopAtFailure(c) ==
  IF c.nTried = c.guilds \/ c.failedAt # 0 THEN NickReturn(c, "done") ELSE c

\* for (const guild of userGuilds) { try { ... } catch (e) { log } }: the
\* next guild whatever the last one did, the return after the last
NextGuild(c) ==
  IF c.nTried = c.guilds THEN NickReturn(c, "done") ELSE c

\* The callback after the sync.  server.js calls updateNickname(discordUserId),
\* which reads the link and the ScoutID token set.  part_006 takes the name of
\* the profile fetched at the start: without one the handler would return
\* with no response sent (ProfileName is never empty); with one updateNickname(discordUserId, nickname) reads the
\* Discord token set and takes config.DISCORD_GUILD_ID, when set, as the one
\* guild.
Nickname(named, configured) ==
  /\ cur.pc = "nick"
  /\ cur' =
       LET c == [SyncOver(cur) EXCEPT !.configured = configured]
       IN IF srv = "server.js"
          THEN IF ReadLink(c.discordUserId) = 0 THEN NickReturn(c, "no-link")
               ELSE [c EXCEPT !.pc = "nick_profile", !.nick = "running"]
          ELSE IF ProfileName(named) = <<>> /\ c.handler = "scoutid-cb"
               THEN Finish([c EXCEPT !.nick = "no-name"], 0)
               ELSE LET n == [c EXCEPT !.name = ProfileName(named),
                                       !.nickname = CutNickname(ProfileName(named))]
                    IN IF ReadDiscord(c.discordUserId).owner = 0
                       THEN NickReturn(n, "no-tokens")
                       ELSE IF configured
                       THEN [n EXCEPT !.pc = "nick_guild", !.nick = "running",
                                      !.guilds = 1]
                       ELSE [n EXCEPT !.pc = "nick_guilds", !.nick = "running"]
  /\ UNCHANGED <<parked, cookies, srv, dsc, sto, handled, nextState, discordTokens, stateData,
                 scoutidTokens, discordLink, scoutnetCache, participants,
                 consumed>>

\* server.js: scoutid.getUserData(scoutIDTokens) once more.  A null token set
\* and a response that is not ok both throw, into the outer catch.
NickProfile(r, named) ==
  /\ cur.pc = "nick_profile"
  /\ cur' =
       IF ReadScoutID(ReadLink(cur.discordUserId)).subject = 0
       THEN NickCaught(cur, "caught")
       ELSE LET c == [cur EXCEPT !.nUpstream = @ + 1]
                n == [c EXCEPT !.name = ProfileName(named),
                               !.nickname = CutNickname(ProfileName(named))]
            IN IF r # OK THEN NickCaught(Failed(c), "caught")
               ELSE IF ProfileName(named) = <<>> THEN NickReturn(c, "no-name")
               ELSE IF ReadDiscord(cur.discordUserId).owner = 0
               THEN NickReturn(n, "no-tokens")
               ELSE [n EXCEPT !.pc = "nick_guilds"]
  /\ UNCHANGED <<parked, cookies, srv, dsc, sto, handled, nextState, discordTokens, stateData,
                 scoutidTokens, discordLink, scoutnetCache, participants,
                 consumed>>

\* discord.getUserGuilds(discordTokens): n guilds, or an error thrown into
\* the catch around the loop (part_003 after its retries on 429)
NickGuilds(r, n) ==
  /\ cur.pc = "nick_guilds"
  /\ cur' = LET c == [cur EXCEPT !.nGuildsQuery = 1]
            IN IF r = OK
               THEN NextGuild([c EXCEPT !.pc = "nick_guild", !.guilds = n,
                                        !.attempt = 0])
               ELSE IF Retryable(r, cur.attempt)
               THEN [Failed(c) EXCEPT !.attempt = @ + 1]
               ELSE NickCaught(Failed(c), "guilds-failed")
  /\ UNCHANGED <<parked, cookies, srv, dsc, sto, handled, nextState, discordTokens, stateData,
                 scoutidTokens, discordLink, scoutnetCache, participants,
                 consumed>>

\* what the attempt in one guild can come to: the nickname set, the PATCH
\* refused (or, in server.js, the bot without the permission), or an error
\* thrown by a call (part_003 turns every error of the PATCH into false)
GuildOutcomes ==
  IF dsc = "part_003" THEN {"updated", "refused"}
  ELSE {"updated", "refused", "threw"}

\* discord.checkBotPermissions(guild.id), which only server.js calls (with
\* part_002): the bot holds Manage Nicknames, it does not, the request was
\* answered with an error (canManageNicknames: false), or fetch threw
Checks ==
  IF srv = "server.js" THEN {"granted", "denied", "failed", "threw"}
  ELSE {"none"}

\* the PATCH is sent when the check granted; part_006 makes no check and
\* sends it for every guild
PatchIsSent(check) == srv # "server.js" \/ check = "granted"

\* one turn of the loop over the guilds, in a guild where the bot holds
\* Manage Nicknames or does not: Discord sets a nickname only where it does
NickGuild(holds, check, outcome) ==
  /\ cur.pc = "nick_guild"
  /\ outcome \in GuildOutcomes /\ check \in Checks
  /\ check = "granted" => holds
  /\ check = "denied" => ~holds
  /\ outcome = "updated" => holds
  /\ ~PatchIsSent(check) =>
        outcome = (IF check = "threw" THEN "threw" ELSE "refused")
  /\ cur' = NextGuild([cur EXCEPT !.nTried = @ + 1,
                          !.unpermitted = @ \/ (PatchIsSent(check) /\ ~holds),
                          !.failed = @ \/ outcome # "updated",
                          !.failedAt = IF @ = 0 /\ outcome # "updated"
                                       THEN cur.nTried + 1 ELSE @])
  /\ UNCHANGED <<parked, cookies, srv, dsc, sto, handled, nextState, discordTokens, stateData,
                 scoutidTokens, discordLink, scoutnetCache, participants,
                 consumed>>

\* updateNickname called on its own with a Discord user id
UpdateNickname(userId) ==
  /\ Ready
  /\ userId \in Visitors \cup {Undefined}
  /\ handled < MaxRequests
  /\ handled' = handled + 1
  /\ cur' = [Idle EXCEPT !.handler = "nickname", !.pc = "nick",
                         !.discordUserId = userId]
  /\ UNCHANGED <<parked, cookies, srv, dsc, sto, nextState, discordTokens, stateData,
                 scoutidTokens, discordLink, scoutnetCache, participants,
                 consumed>>

\* ------------------------------------------------------------- properties
\* The sync has been entered: by the ScoutID callback, by /update-metadata
\* or by a direct call.
InSync == cur.sync # "none"

\* C1: a /discord-oauth-callback whose state differs from the signed
\* clientState cookie is answered 403 at once, with no token exchange, no
\* profile fetch, no store write and no redirect.
C1_DiscordMismatchRejected ==
  (cur.handler = "discord-cb" /\ ~cur.match) =>
     /\ cur.pc = "done" /\ cur.status = Forbidden
     /\ cur.nExchange = 0 /\ cur.nProfile = 0
     /\ cur.wrote = {} /\ cur.newState = 0

C1_Witness ==
  /\ cur.handler = "discord-cb" /\ ~cur.match /\ ~cur.noCookie
  /\ cur.status = Forbidden

\* C2: a /discord-oauth-callback without a valid signed clientState cookie is
\* answered 403 whatever its state parameter is, also when it has none, and
\* no token exchange happens for it.
C2_NoCookieRejected ==
  (cur.handler = "discord-cb" /\ cur.noCookie) =>
     /\ cur.nExchange = 0
     /\ cur.pc = "done" => cur.status = Forbidden

\* the request without cookie and without state that went the whole way
C2_LinkStateWithoutCookie ==
  /\ cur.handler = "discord-cb" /\ cur.noCookie
  /\ cur.status = Redirect /\ "state" \in cur.wrote

\* C3, as stated: a /scoutid-oauth-callback whose state differs from the
\* signed cookie is answered 403, whether or not a LinkState is stored under
\* the presented state, with no token exchange and no store write.
C3_ScoutidMismatchForbidden ==
  (cur.handler = "scoutid-cb" /\ ~cur.match) =>
     /\ cur.pc = "done" /\ cur.status = Forbidden
     /\ cur.nExchange = 0 /\ cur.nProfile = 0 /\ cur.wrote = {}

\* C3, amended: such a request is answered 403 when a LinkState is stored
\* under the presented state and 500 when none is; either way there is no
\* token exchange, no ScoutIDTokenSet write and no Identity Link write.
C3_ScoutidMismatchRefused ==
  (cur.handler = "scoutid-cb" /\ ~cur.match) =>
     /\ cur.pc = "done"
     /\ cur.status = IF cur.hadState THEN Forbidden ELSE ServerError
     /\ cur.nExchange = 0 /\ cur.nProfile = 0 /\ cur.wrote = {}

C3_Witness ==
  /\ cur.handler = "scoutid-cb" /\ ~cur.match /\ cur.hadState
  /\ cur.status = Forbidden

\* C4: a /scoutid-oauth-callback whose state has no stored LinkState ends in
\* an error response without a token exchange, a ScoutIDTokenSet write, an
\* Identity Link write or a metadata push.
C4_NoLinkStateTerminal ==
  (cur.handler = "scoutid-cb" /\ ~cur.hadState) =>
     /\ cur.pc = "done" /\ cur.status = ServerError
     /\ cur.nExchange = 0 /\ cur.nProfile = 0 /\ cur.wrote = {}
     /\ cur.pushes = 0 /\ cur.nPut = 0

\* the state was issued and the cookie matches it, but the entry is gone
C4_Witness ==
  /\ cur.handler = "scoutid-cb" /\ ~cur.hadState
  /\ cur.match /\ cur.state \in StateTokens
  /\ cur.status = ServerError

\* C5: once a /scoutid-oauth-callback has linked with the LinkState stored
\* under s, a second one presenting s with the same cookie does not get that
\* LinkState again and writes no ScoutIDTokenSet and no Identity Link.
C5_SingleUse ==
  (cur.handler = "scoutid-cb" /\ cur.replay) =>
     /\ cur.discordUserId = 0
     /\ cur.wrote = {} /\ cur.pushes = 0

\* the replay that linked again, down to the success page
C5_ReplayLinked ==
  /\ cur.handler = "scoutid-cb" /\ cur.replay
  /\ "link" \in cur.wrote /\ cur.status = OK

\* C6: an Identity Link d -> s is written only by a /scoutid-oauth-callback
\* whose state equals its signed cookie and has a LinkState stored with
\* discordUserId = d, after a token exchange made with that LinkState's
\* codeVerifier, and s is the subject of the profile fetched with the tokens
\* of that exchange.
C6_LinkProvenance ==
  [][\A d \in Users :
       discordLink'[d] # discordLink[d] =>
         /\ cur.handler = "scoutid-cb" /\ cur.pc = "s_link"
         /\ cur.match /\ StateStored(cur.state)
         /\ d = stateData[cur.state].discordUserId
         /\ cur.nExchange = 1
         /\ cur.exVerifier = stateData[cur.state].codeVerifier
         /\ discordLink'[d] = cur.tokens.owner
         /\ \A other \in Users \ {d} : discordLink'[other] = discordLink[other]]_vars

\* the link written at the end of the whole flow, /linked-role included
C6_Witness ==
  /\ cur.handler = "scoutid-cb" /\ cur.match /\ "link" \in cur.wrote
  /\ cur.state = MaxStates /\ cur.exVerifier = cur.state
  /\ discordLink[cur.discordUserId] = cur.userId

\* C7: a sync for a Discord user without Identity Link issues no call to
\* ScoutID, ScoutNet or Discord and returns without error.
C7_UnlinkedNoop ==
  (InSync /\ cur.syncUser \in Users /\ ~cur.linked) =>
     /\ cur.nUpstream = 0 /\ cur.nRefresh = 0 /\ cur.nPut = 0
     /\ cur.sync = "noop"
     /\ cur.handler = "update-metadata" => cur.status = NoContent

\* the PUT a sync for an unlinked user sent, with no metadata in its body
C7_UnlinkedPushed ==
  /\ InSync /\ ~cur.linked /\ cur.syncUser \in Users
  /\ cur.puts = {UndefinedMetadata} /\ cur.status = NoContent

\* C8: when the ScoutID userinfo fetch or the ScoutNet fetch throws during a
\* sync for a linked user, pushMetadata is still called, once, with the
\* empty object, and every PUT of the sync carries the empty object; no PUT
\* is sent only when the Discord token set is missing or its refresh fails.
C8_UpstreamFailurePushesEmpty ==
  (InSync /\ cur.linked /\ cur.upstream = "threw") =>
     /\ cur.metadata = EmptyMetadata
     /\ cur.pushes = 1
     /\ cur.puts \subseteq {EmptyMetadata}
     /\ cur.sync = "pushed" => cur.puts = {EmptyMetadata}
     /\ (cur.pc = "done" /\ cur.nPut = 0) =>
           cur.err \in {"no-discord-tokens", "refresh"}

\* the ScoutNet fetch threw after the userinfo fetch had succeeded
C8_Witness ==
  /\ InSync /\ cur.linked /\ cur.upstream = "threw" /\ cur.nUpstream = 2
  /\ cur.sync = "pushed" /\ cur.puts = {EmptyMetadata}

\* C9: when the Identity Link exists and the ScoutIDTokenSet of the linked
\* subject is not in the store, the sync still calls pushMetadata with the
\* empty object and fails only if the Discord side does.
C9_MissingTokenSetPushesEmpty ==
  (InSync /\ cur.linked /\ cur.upstream = "typeerror") =>
     /\ cur.metadata = EmptyMetadata
     /\ cur.pushes = 1
     /\ cur.err \in {"none", "no-discord-tokens", "refresh", "put"}

\* the sync that threw on scoutIDTokens.discord_user_id before any push
C9_ThrewBeforePush ==
  /\ InSync /\ cur.linked /\ cur.upstream = "typeerror"
  /\ cur.sScoutID = NoScoutIDTokens
  /\ cur.pushes = 0 /\ cur.nPut = 0
  /\ cur.sync = "threw" /\ cur.err = "scoutid-tokens-null"

\* C10: one call of pushMetadata with a token set whose expires_at is past
\* refreshes the token set once, also when the call is retried after a 429,
\* and stores the new set under the user id it was called with; with
\* expires_at in the future it sends no refresh request and stores nothing.
C10_OneRefresh ==
  (InSync /\ cur.pushes = 1) =>
     /\ cur.nRefreshed <= 1
     /\ cur.nRefreshed = 1 =>
          /\ cur.expired
          /\ discordTokens[cur.pushUser] = cur.stored
          /\ cur.stored.exp \in ExpiresIn
     /\ (cur.expired /\ cur.nPut > 0) => cur.nRefreshed = 1
     /\ ~cur.expired => (cur.nRefresh = 0 /\ "discord" \notin cur.wrote)

\* the push that was retried after a 429 and refreshed a second time
C10_RefreshedTwice ==
  /\ InSync /\ cur.pushes = 1 /\ cur.sync = "pushed"
  /\ cur.nRefreshed = 2 /\ cur.nPut = 2

\* C11: a refresh request that fails leaves the stored token set as it was
\* and is followed by no role-connection PUT with the access token of the
\* expired set: the refresh is tried again by the retry loops, or the sync
\* ends with the refresh error.  Every PUT carries an access token that has
\* not expired.
C11_RefreshFailureFails ==
  [][/\ (/\ cur.pc = "push_refresh"
         /\ cur'.nRefresh = cur.nRefresh + 1
         /\ cur'.nRefreshed = cur.nRefreshed) =>
           /\ discordTokens' = discordTokens
           /\ cur'.nPut = cur.nPut /\ cur'.access = cur.access
           /\ \/ cur'.pc = "push_refresh"
              \/ /\ cur'.pc = "done" /\ cur'.sync = "threw"
                 /\ cur'.err = "refresh"
                 /\ cur'.status \in {0, ServerError}
     /\ cur'.pc = "push_put" =>
           (cur'.access.owner # 0 /\ cur'.access.exp >= 0)]_vars

\* the sync that ended on a failed refresh, the expired set still stored
C11_Witness ==
  /\ InSync /\ cur.err = "refresh" /\ cur.sync = "threw"
  /\ cur.nRefresh > 0 /\ cur.nRefreshed = 0 /\ cur.nPut = 0
  /\ cur.sDiscord.exp = Past
  /\ discordTokens[cur.pushUser] = cur.sDiscord

\* ---------------------------------------------------------- specification
\* the runs of retryWithBackoff of the request in progress: the loop around
\* the provider call and the loop around the token refresh inside it
Loops == IF dsc = "part_003" THEN {cur.loop, cur.rloop} ELSE {}

\* C12: a call that answers 429 on its first two attempts and succeeds on the
\* third returns after exactly 3 attempts and exactly two delays, 1000 ms then
\* 2000 ms; and a run that returned after two delays saw exactly that.
C12_TwoRateLimitsThenSuccess ==
  \A l \in Loops :
    /\ l.seen = <<RateLimited, RateLimited, OK>> =>
          (l.out = "returned" /\ l.delays = <<1000, 2000>>)
    /\ (l.out = "returned" /\ Len(l.delays) = 2) =>
          l.seen = <<RateLimited, RateLimited, OK>>

C12_Witness ==
  /\ cur.loop.seen = <<RateLimited, RateLimited, OK>>
  /\ cur.loop.out = "returned"
  /\ cur.loop.delays = <<1000, 2000>>
  /\ cur.nPut = 3 /\ cur.sync = "pushed"

\* C13: an attempt that fails with a status other than 429, or with an error
\* that carries no status, is the last of its run whatever its number: the
\* run threw, and no delay was slept after it.
C13_OnlyRateLimitRetried ==
  \A l \in Loops : \A i \in 1..Len(l.seen) :
    l.seen[i] \notin {OK, RateLimited} =>
      /\ i = Len(l.seen)
      /\ l.out = "threw"
      /\ Len(l.delays) = i - 1

C13_Witness ==
  /\ cur.loop.seen = <<RateLimited, ServerError>>
  /\ cur.loop.out = "threw"
  /\ cur.loop.delays = <<1000>>
  /\ cur.pc = "done" /\ cur.status = ServerError

C15_TokenSetHasLink ==
  \A s \in Subjects :
    scoutidTokens[s].discord_user_id # 0 =>
      discordLink[scoutidTokens[s].discord_user_id] # 0

\* the callback between its two writes: the token set stored, the link not yet
C15_TokenSetBeforeLink ==
  /\ cur.handler = "scoutid-cb" /\ cur.pc = "s_link"
  /\ scoutidTokens[cur.userId].discord_user_id = cur.discordUserId
  /\ discordLink[cur.discordUserId] = 0

\* C16: a /scoutid-oauth-callback with a stored LinkState {d, v}, a matching
\* cookie and no provider call answered with an error has, by the time it
\* responds, set the Identity Link of d to the subject of the profile, stored
\* the ScoutIDTokenSet of that subject with back-reference d, and sent
\* exactly one role-connection PUT; its response is the success page.
C16_LinkFlowCompletes ==
  (/\ cur.handler = "scoutid-cb" /\ cur.hadState /\ cur.match /\ ~cur.failed
   /\ cur.pc \in {"nick", "nick_profile", "nick_guilds", "nick_guild", "done"}) =>
     /\ cur.pc = "done" => cur.status = OK
     /\ cur.userId \in Subjects /\ cur.discordUserId \in Users
     /\ discordLink[cur.discordUserId] = cur.userId
     /\ scoutidTokens[cur.userId].subject = cur.userId
     /\ scoutidTokens[cur.userId].discord_user_id = cur.discordUserId
     /\ cur.nPut = 1 /\ cur.sync = "pushed"

C16_Witness ==
  /\ cur.handler = "scoutid-cb" /\ cur.hadState /\ cur.match
  /\ ~cur.failed /\ cur.pc = "done" /\ cur.status = OK
  /\ cur.nPut = 1 /\ cur.wrote = {"scoutid", "link"}

\* C17: a /discord-oauth-callback with matching state whose provider calls
\* succeed stores the Discord token set under the profile's user id, draws a
\* correlation token other than the Discord leg's, sets the signed cookie to
\* it, stores the LinkState {discordUserId, codeVerifier} under it, and
\* redirects to the ScoutID authorize URL with that state, a nonce, the S256
\* challenge of the code verifier and response_type=code.
C17_DiscordCallbackHandsOver ==
  (/\ cur.handler = "discord-cb" /\ cur.match /\ ~cur.failed
   /\ cur.pc = "done") =>
     /\ cur.status = Redirect
     /\ cur.userId \in Users
     /\ discordTokens[cur.userId] = cur.stored /\ cur.stored.owner = cur.userId
     /\ cur.newState \in StateTokens /\ cur.newState # cur.state
     /\ cur.setCookie = cur.newState
     /\ stateData[cur.newState].discordUserId = cur.userId
     /\ stateData[cur.newState].codeVerifier = cur.codeVerifier
     /\ stateData[cur.newState].ttl = Expiry(StateTTL)
     /\ cur.location.endpoint = "scoutid.se/simplesaml/module.php/oidc/authorize.php"
     /\ cur.location.state = cur.newState
     /\ cur.location.nonce # Undefined
     /\ cur.location.code_challenge = S256(cur.codeVerifier)
     /\ cur.location.code_challenge_method = "S256"
     /\ cur.location.response_type = "code"

\* the hand-over of a callback that followed a /linked-role
C17_Witness ==
  /\ cur.handler = "discord-cb" /\ cur.match /\ ~cur.failed
  /\ cur.status = Redirect /\ cur.state \in StateTokens
  /\ cur.newState = cur.state + 1
  /\ stateData[cur.newState].discordUserId = cur.userId

\* C18: when the sync is run twice in succession for one user and no
\* provider call fails, both runs publish, and publish the same payload for
\* the same Discord user, also when the first run refreshed the Discord token
\* set; and two runs that published after the same upstream outcome
\* published the same payload.
C18_SyncIdempotent ==
  (cur.first.sync = "pushed" /\ cur.pc = "done") =>
     /\ ~cur.failed =>
          /\ cur.sync = "pushed"
          /\ cur.nPut = 1 /\ Cardinality(cur.puts) = 1
     /\ (cur.sync = "pushed" /\ cur.upstream = cur.first.upstream) =>
          /\ cur.puts = cur.first.puts
          /\ cur.pushUser = cur.first.pushUser

\* the second run after a first one that refreshed the token set
C18_Witness ==
  /\ cur.first.sync = "pushed" /\ cur.first.refreshed
  /\ cur.pc = "done" /\ ~cur.failed /\ cur.sync = "pushed"
  /\ cur.nRefresh = 0
  /\ \E m \in cur.puts : m.kind = "full" /\ m.of \in Subjects /\ cur.puts = {m}
  /\ cur.first.puts = cur.puts

\* C19: updateNickname never throws, whatever the store holds and whatever
\* the providers answer, and once it has the list of guilds it attempts every
\* guild of it, whatever happened in the guilds before.
C19_NicknameBestEffort ==
  /\ (cur.nick \notin {"none", "no-name"}) =>
        /\ cur.err = "none"
        /\ cur.status \in {0, OK}
        /\ cur.pc = "done" =>
             cur.status = IF cur.handler = "scoutid-cb" THEN OK ELSE 0
  /\ cur.pc = "nick_guild" => cur.nTried < cur.guilds
  /\ (cur.pc = "done" /\ cur.nick = "done") => cur.nTried = cur.guilds
  /\ cur.failedAt <= cur.nTried

\* two guilds attempted although the first attempt failed, with the Discord
\* user looked up directly
C19_Witness ==
  /\ cur.handler = "nickname" /\ cur.pc = "done" /\ cur.nick = "done"
  /\ cur.guilds = 2 /\ cur.nTried = 2 /\ cur.failedAt = 1

\* C20: a request to /update-metadata that carries a Discord user id is
\* answered 204 when the sync returned (also for a user without link and
\* after an upstream failure with a successful push) and 500 only when the
\* sync threw.
C20_StatusFollowsSync ==
  (cur.handler = "update-metadata" /\ cur.reqUserId \in Users
   /\ cur.pc = "done") =>
     /\ cur.sync \in {"noop", "pushed"} => cur.status = NoContent
     /\ cur.status = ServerError => cur.sync = "threw"
     /\ cur.status \in {NoContent, ServerError}

\* the 500 of server.js for a request whose sync never started
C20_FailedBeforeSync ==
  /\ srv = "server.js"
  /\ cur.handler = "update-metadata" /\ cur.reqUserId \in Users
  /\ cur.pc = "done" /\ cur.status = ServerError
  /\ cur.sync = "none" /\ cur.err = "no-body"
  /\ cur.nUpstream = 0 /\ cur.nPut = 0

\* C21: every /discord-oauth-callback and /scoutid-oauth-callback is
\* eventually answered, and the answer of a handler that has run to its end
\* is the redirect or the success page, or 403 or 500, with 500 for every
\* exception; no handler returns without having responded.
C21_CallbackResponds ==
  /\ []((cur.handler \in {"discord-cb", "scoutid-cb"} /\ cur.pc = "done") =>
          /\ cur.status \in {Redirect, OK, Forbidden, ServerError}
          /\ cur.handler = "discord-cb" => cur.status # OK
          /\ cur.handler = "scoutid-cb" => cur.status # Redirect
          /\ cur.err # "none" => cur.status = ServerError)
  /\ (cur.handler \in {"discord-cb", "scoutid-cb"} /\ cur.pc # "done")
        ~> (cur.pc = "done" /\ cur.status # 0)

\* the success page of part_006 after the guild loop
C21_Witness ==
  /\ srv = "part_006"
  /\ cur.handler = "scoutid-cb" /\ cur.pc = "done" /\ cur.status = OK
  /\ cur.nick = "done" /\ cur.guilds > 0

\* C22: every LinkState the Discord callback has stored is eventually absent
\* from the store, whether or not a ScoutID callback ever presents its token.
C22_LinkStateExpires ==
  \A s \in StateTokens : StateStored(s) ~> ~StateStored(s)

\* the in-memory Map holding a LinkState that nothing will ever remove, all
\* requests over
C22_KeptForever ==
  /\ sto = "memory" /\ Ready /\ handled = MaxRequests
  /\ \E s \in StateTokens : StateStored(s) /\ stateData[s].ttl = Never
  /\ Deadlines = {}

\* base64url without padding (RFC 7636, appendix A) of 6-bit groups
Base64UrlNoPad(groups) ==
  [i \in 1..Len(groups) |->
     IF groups[i] = 62 THEN "-" ELSE IF groups[i] = 63 THEN "_"
     ELSE Letters[groups[i] + 1]]

\* C24: the code_challenge of the authorize URL the Discord callback
\* redirects to is the unpadded base64url encoding of the SHA-256 digest of
\* the code verifier, and the verifier stored in the LinkState under the
\* URL's state is the verifier the challenge was computed from.
C24_ChallengeOfStoredVerifier ==
  (cur.handler = "discord-cb" /\ cur.pc = "done" /\ cur.status = Redirect) =>
     /\ cur.location.state \in StateTokens
     /\ LET stored == stateData[cur.location.state]
        IN /\ stored.codeVerifier = cur.codeVerifier
           /\ cur.location.code_challenge =
                 Base64UrlNoPad(Sha256(stored.codeVerifier))
     /\ \A i \in DOMAIN cur.location.code_challenge :
           cur.location.code_challenge[i] \notin {"=", "+", "/"}
     /\ cur.location.code_challenge_method = "S256"

\* a redirect whose challenge holds both characters the URL-safe alphabet
\* replaces, for a verifier other than the first one drawn
C24_Witness ==
  /\ cur.handler = "discord-cb" /\ cur.pc = "done" /\ cur.status = Redirect
  /\ cur.codeVerifier > 1
  /\ stateData[cur.location.state].codeVerifier = cur.codeVerifier
  /\ cur.location.code_challenge = <<Letters[cur.codeVerifier + 1], "-", "_">>

\* C23: the userinfo request of a sync is never sent with the access token
\* of a ScoutID token set whose expires_at is past: an expired set is
\* refreshed and stored first and the profile is fetched with the new token.
C23_ExpiredScoutIDRefreshed ==
  cur.nUpstream > 0 => cur.sScoutID.exp # Past

\* a sync of a linked user has sent the userinfo request with the token of
\* an expired set, and the stored set is the one it read
C23_ExpiredTokenSent ==
  /\ cur.handler = "update-metadata" /\ cur.linked /\ cur.nUpstream > 0
  /\ cur.sScoutID.subject \in Subjects /\ cur.sScoutID.exp = Past
  /\ scoutidTokens[cur.sScoutID.subject] = cur.sScoutID
  /\ "scoutid" \notin cur.wrote

\* C25: when the upstream fetches of a sync succeeded, the body of every PUT
\* it sent carries each key of the registered schema (accepted, leader, ist,
\* troop, patrol) with a value derived from the ScoutNet data, accepted being
\* a boolean; none is left out as undefined.
C25_EverySchemaKeyPushed ==
  (cur.upstream = "ok" /\ cur.nPut > 0) =>
     \A m \in cur.puts :
        /\ Stringify(m) = SchemaKeys
        /\ m.fields.accepted \in {"true", "false"}

\* server.js has pushed for a listed, not cancelled participant: the body
\* carries leader, ist, troop and patrol, and no accepted
C25_AcceptedLeftOut ==
  /\ srv = "server.js" /\ cur.upstream = "ok" /\ cur.sync = "pushed"
  /\ participants.listed /\ participants.cancelled_date = "null"
  /\ \E m \in cur.puts :
        /\ Stringify(m) = SchemaKeys \ {"accepted"}
        /\ m.fields.leader = "true" /\ m.fields.troop = "1"
        /\ m.fields.accepted = "undefined"

\* C26: a /scoutid-oauth-callback that fails at any step (missing LinkState,
\* cookie mismatch, exchange, profile, metadata push) leaves the Discord token
\* set under discord-<id> as it was; and for a user who has a Discord token
\* set and no link the sync is a no-op, not an error.
C26_FailureLeavesDiscordTokens ==
  /\ (cur.handler = "scoutid-cb" /\ cur.pc = "done" /\ cur.status # OK) =>
        "discord" \notin cur.wrote
  /\ (/\ InSync /\ cur.pc = "done" /\ ~cur.linked
      /\ cur.syncUser \in Users /\ discordTokens[cur.syncUser].owner # 0) =>
        cur.sync = "noop" /\ cur.nPut = 0 /\ cur.err = "none"

\* a sync for a user with a Discord token set and no link that sent a PUT
\* and ended in an error
C26_UnlinkedSyncFailed ==
  /\ cur.handler = "update-metadata" /\ cur.pc = "done" /\ ~cur.linked
  /\ cur.syncUser \in Users /\ discordTokens[cur.syncUser].owner # 0
  /\ cur.nPut > 0 /\ cur.sync = "threw" /\ cur.status = ServerError

\* C27: when the store holds no Discord token set for a linked user, the sync
\* sends no PUT with any token and no refresh request, and fails: it throws,
\* and /update-metadata answers 500.
C27_StoreMissFailsSync ==
  (InSync /\ cur.linked /\ cur.nick = "none" /\ cur.sDiscord.owner = 0) =>
     /\ cur.nPut = 0 /\ cur.nRefresh = 0 /\ cur.puts = {}
     /\ cur.sync \in {"running", "threw"}
     /\ cur.pc = "done" =>
          /\ cur.sync = "threw"
          /\ cur.handler = "update-metadata" => cur.status = ServerError

\* the sync of a linked user whose Discord token set the store has dropped:
\* pushMetadata was called, nothing was sent to Discord, the answer is 500
C27_Witness ==
  /\ cur.handler = "update-metadata" /\ cur.pc = "done" /\ cur.linked
  /\ cur.syncUser \in Users /\ discordTokens[cur.syncUser] = NoDiscordTokens
  /\ cur.pushes > 0 /\ cur.nPut = 0 /\ cur.nRefresh = 0
  /\ cur.err = "no-discord-tokens" /\ cur.status = ServerError

\* C28: updateNickname sends the nickname PATCH only for guilds in which the
\* bot holds Manage Nicknames, and none where the permission check fails or
\* answers false; the guilds are the configured guild alone when one is
\* configured, with no query of the user's guilds, else the user's guilds.
C28_PatchOnlyWherePermitted ==
  /\ ~cur.unpermitted
  /\ (cur.nick # "none" /\ cur.configured) =>
        /\ cur.nGuildsQuery = 0
        /\ cur.nTried > 0 => cur.guilds = 1
  /\ (cur.nick # "none" /\ ~cur.configured /\ cur.nTried > 0) =>
        cur.nGuildsQuery = 1

\* part_006 has sent the PATCH for a guild in which the bot does not hold
\* the permission, and the callback has answered
C28_PatchedWithoutPermission ==
  /\ srv = "part_006" /\ cur.handler = "scoutid-cb" /\ cur.pc = "done"
  /\ cur.nick = "done" /\ cur.unpermitted /\ cur.nTried > 0
  /\ cur.status = OK

\* the positions inside updateMetadata and the pushMetadata it calls
SyncPcs ==
  {"sync_read", "sync_scoutid", "sync_scoutnet", "push_refresh", "push_put"}

\* C29: whatever its outcome, no step of the sync changes the Identity Link
\* of any user, any LinkState entry or any ScoutID token set, and a step
\* changes discord-<u> only for the user the sync was called for and only by
\* storing a refreshed set.
C29_SyncFrame ==
  [][cur.pc \in SyncPcs =>
       /\ discordLink' = discordLink
       /\ stateData' = stateData
       /\ scoutidTokens' = scoutidTokens
       /\ \A u \in Users :
             discordTokens'[u] # discordTokens[u] =>
               u = cur.syncUser /\ cur'.nRefreshed = cur.nRefreshed + 1]_vars

\* the sync called for one user has stored the set it refreshed with that
\* user's refresh token under the id of another user
C29_OtherUsersSetReplaced ==
  /\ InSync /\ cur.syncUser \in Users /\ cur.pushUser \in Users
  /\ cur.pushUser # cur.syncUser /\ cur.nRefreshed > 0
  /\ discordTokens[cur.pushUser].owner = cur.syncUser
  /\ discordTokens[cur.pushUser] = cur.stored

C31_LastWriterWins ==
  [][/\ \A s \in Subjects :
          scoutidTokens'[s] # scoutidTokens[s] =>
             /\ cur.pc = "s_profile" /\ cur.tokens.owner = s
             /\ scoutidTokens'[s] =
                  [discord_user_id |-> cur.discordUserId, subject |-> s,
                   code_verifier |-> cur.codeVerifier, exp |-> cur.tokens.exp,
                   ttl |-> Expiry(TokenTTL)]
     /\ \A u \in Users :
          /\ discordLink'[u] # discordLink[u] =>
                cur.pc = "s_link" /\ cur.discordUserId = u
          /\ discordTokens'[u] # discordTokens[u] =>
                cur.pc = "push_refresh" /\ discordTokens'[u] = cur'.stored
     /\ (cur.pc = "s_link" /\ parked' = parked) =>
           discordLink'[cur.discordUserId] = cur.userId
    ]_vars

\* Both callbacks of the Discord user are in flight, each with its own
\* LinkState and subject; both have written their token set and the link,
\* and the link is the subject of the one that is suspended.
C31_Witness ==
  /\ cur.handler = "scoutid-cb" /\ parked.handler = "scoutid-cb"
  /\ cur.discordUserId = 1 /\ parked.discordUserId = 1
  /\ cur.codeVerifier # parked.codeVerifier
  /\ cur.userId # parked.userId
  /\ {"scoutid", "link"} \subseteq cur.wrote
  /\ {"scoutid", "link"} \subseteq parked.wrote
  /\ discordLink[1] = parked.userId


C32_RelinkOverwrites ==
  /\ (cur.handler = "scoutid-cb" /\ "link" \in cur.wrote) =>
        discordLink[cur.discordUserId] = cur.userId
  /\ (InSync /\ cur.syncUser \in Users) =>
        LET s == discordLink[cur.syncUser]
        IN /\ cur.sScoutID.subject \in {0, s}
           /\ cur.metadata.of \in {0, s}
           /\ \A m \in cur.puts : m.of \in {0, s}

\* Discord user 1 stored and linked subject 1, then went through the ScoutID
\* callback again as subject 2: the link is 2 and the sync of that callback
\* has pushed metadata of subject 2, while the token set of subject 1 is
\* still in the store.
C32_Witness ==
  /\ scoutidTokens[1].discord_user_id = 1
  /\ discordLink[1] = 2
  /\ cur.handler = "scoutid-cb" /\ cur.syncUser = 1 /\ cur.sync = "pushed"
  /\ cur.metadata.kind = "full" /\ cur.metadata.of = 2

\* C33: scoutnet.getUserData derives its fields by fixed question ids and
\* defaults.  For the entry the store holds for the member: without a record
\* the result is false, false, false, null, null; with a record
\* is_participant is true exactly when cancelled_date is null (or absent),
\* is_leader and is_ist are true exactly when the answers to 82553 and 82555
\* are "55897", troop and patrol are the answers to 82552 and 82554, or 0
\* when that answer is missing or blank, and without a questions map they are
\* false, false, null, null.  A server.js sync that got the data builds
\* leader, ist, troop and patrol of its metadata from these values.
C33_FieldsByQuestionId ==
  LET p == participants
      d == ScoutnetUserData(p)
      a == p.questions.answers
      orZero(x) == IF x = "undefined" \/ x = "" THEN "0" ELSE x
  IN /\ DOMAIN d = {"is_participant", "is_leader", "is_ist", "troop", "patrol"}
     /\ ~p.listed =>
          d = [is_participant |-> "false", is_leader |-> "false",
               is_ist |-> "false", troop |-> "null", patrol |-> "null"]
     /\ p.listed =>
          /\ d.is_participant \in {"true", "false"}
          /\ d.is_participant = "true" <=>
                p.cancelled_date \in {"null", "undefined"}
          /\ p.questions.map =>
                /\ d.is_leader = (IF a[82553] = "55897" THEN "true" ELSE "false")
                /\ d.is_ist = (IF a[82555] = "55897" THEN "true" ELSE "false")
                /\ d.troop = orZero(a[82552])
                /\ d.patrol = orZero(a[82554])
          /\ ~p.questions.map =>
                /\ d.is_leader = "false" /\ d.is_ist = "false"
                /\ d.troop = "null" /\ d.patrol = "null"
     /\ (srv = "server.js" /\ InSync /\ cur.upstream = "ok") =>
          /\ cur.metadata.fields.leader = d.is_leader
          /\ cur.metadata.fields.ist = d.is_ist
          /\ cur.metadata.fields.troop = d.troop
          /\ cur.metadata.fields.patrol = d.patrol

\* a sync has pushed for a member whose record has a questions map that
\* answers 82555 with yes and 82554 with a value, and leaves 82552 out
C33_Witness ==
  /\ InSync /\ cur.upstream = "ok" /\ cur.sync = "pushed"
  /\ participants.listed /\ participants.cancelled_date = "undefined"
  /\ participants.questions.map
  /\ participants.questions.answers[IstQuestion] = Yes
  /\ participants.questions.answers[LeaderQuestion] = "1"
  /\ participants.questions.answers[TroopQuestion] = "undefined"
  /\ participants.questions.answers[PatrolQuestion] = "1"
  /\ cur.metadata.fields.ist = "true" /\ cur.metadata.fields.leader = "false"
  /\ cur.metadata.fields.troop = "0" /\ cur.metadata.fields.patrol = "1"

\* C34: the nickname sent to Discord is the ScoutID display name cut to at
\* most 32 characters: once a nickname sync has the name, its nickname is the
\* name itself when the name has at most 32 characters and its first 32
\* characters otherwise, and the nickname stays the same from the guild list
\* through every guild of the loop.
C34_NicknameCut ==
  [][/\ cur'.name # <<>> =>
          /\ Len(cur'.nickname) <= 32
          /\ Len(cur'.name) <= 32 => cur'.nickname = cur'.name
          /\ Len(cur'.name) > 32 =>
                cur'.nickname = [i \in 1..32 |-> cur'.name[i]]
     /\ cur.pc \in {"nick_guilds", "nick_guild"} =>
          cur'.nickname = cur.nickname
    ]_vars

\* a nickname sync with a name of 33 characters has gone through two guilds
\* and set the nickname in both
C34_Witness ==
  /\ cur.pc = "done" /\ cur.nick = "done"
  /\ cur.nTried = 2 /\ cur.failedAt = 0
  /\ Len(cur.name) = 33 /\ Len(cur.nickname) = 32
  /\ cur.nickname # cur.name

\* C35: Discord token sets never cross users: the entry discord-<u> holds
\* only a token set that Discord issued for user u, and a sync of user d
\* sends its PUT with an access token of d.
C35_TokenSetsNeverCross ==
  /\ \A u \in Users : discordTokens[u].owner \in {0, u}
  /\ (InSync /\ cur.syncUser \in Users /\ cur.access # NoAccess) =>
        cur.access.owner = cur.syncUser

\* discord-2 holds a token set issued for user 1, and the sync of user 2 has
\* sent its PUT with the access token of user 1
C35_PushedAsOtherUser ==
  /\ discordTokens[2].owner = 1
  /\ cur.handler = "sync" /\ cur.syncUser = 2 /\ cur.sync = "pushed"
  /\ cur.access.owner = 1 /\ cur.nPut > 0

\* C36: the back-reference agrees with the link: for every Identity Link
\* d -> s whose ScoutID token set is in the store, the discord_user_id of
\* that set is d, and the user a sync pushes for is the user it was called
\* with.
C36_BackReferenceAgrees ==
  /\ \A u \in Users :
        (discordLink[u] # 0 /\ ReadScoutID(discordLink[u]) # NoScoutIDTokens) =>
           ReadScoutID(discordLink[u]).discord_user_id = u
  /\ (InSync /\ cur.pushes > 0) => cur.pushUser = cur.syncUser

\* Discord users 1 and 2 are both linked to subject 1, whose token set names
\* user 2
C36_StaleBackReference ==
  /\ discordLink[1] = 1 /\ discordLink[2] = 1
  /\ scoutidTokens[1].subject = 1 /\ scoutidTokens[1].discord_user_id = 2

Replies == {OK, ServerError}

\* C37: a ScoutID callback that arrives with the cookie of a completed
\* Discord callback, while the browser still keeps that cookie, finds the
\* LinkState of its state in the store: the cookie's 300 s end within the
\* LinkState's 600 s, and while the cookie of a redirect is alive the LinkState
\* written with it is stored.
C37_CookieWithinLinkState ==
  /\ CookieMaxAge <= StateTTL * UnitSeconds
  /\ \A s \in StateTokens :
       (cookies[s].left > 0 /\ cookies[s].status = Redirect) => StateStored(s)
  /\ (/\ cur.handler = "scoutid-cb" /\ cur.match
      /\ cur.state \in StateTokens
      /\ cookies[cur.state].left > 0
      /\ cookies[cur.state].status = Redirect) => cur.hadState

\* a ScoutID callback has arrived within the cookie's lifetime and has read
\* the LinkState
C37_Witness ==
  /\ cur.handler = "scoutid-cb" /\ cur.pc = "s_exchange" /\ cur.match
  /\ cur.state \in StateTokens
  /\ cookies[cur.state].left > 0 /\ cookies[cur.state].status = Redirect
  /\ cur.hadState
  /\ sto = "redis"

\* C38: in the Discord callback the Discord token set is written before the
\* LinkState and the LinkState before the redirect: every stored LinkState
\* names a user whose token set is stored, a request about to store the
\* LinkState has written the token set and has sent nothing, a redirect to
\* ScoutID has its LinkState stored, and a failed LinkState write ends in a
\* 500 without a redirect.
C38_TokensThenStateThenRedirect ==
  /\ \A s \in StateTokens :
       StateStored(s) =>
         discordTokens[stateData[s].discordUserId] # NoDiscordTokens
  /\ cur.pc = "d_state" =>
       /\ "discord" \in cur.wrote /\ "state" \notin cur.wrote
       /\ discordTokens[cur.userId] = cur.stored
       /\ ~StateStored(cur.newState)
       /\ cur.status = 0 /\ cur.location = NoUrl
  /\ (cur.handler = "discord-cb" /\ cur.status = Redirect) =>
       /\ StateStored(cur.newState)
       /\ stateData[cur.newState].discordUserId = cur.userId
       /\ cur.wrote = {"discord", "state"}
  /\ (cur.handler = "discord-cb" /\ cur.err = "store-state") =>
       /\ cur.status = ServerError /\ cur.location = NoUrl
       /\ ~StateStored(cur.newState)
       /\ cur.wrote = {"discord"}

\* the store has failed the LinkState write of a Discord callback
C38_Witness ==
  /\ cur.handler = "discord-cb" /\ cur.err = "store-state"
  /\ cur.status = ServerError
  /\ discordTokens[cur.userId] = cur.stored
  /\ cookies[cur.newState].status = ServerError

\* C39: when two requests for one Discord user interleave, the last role
\* connection PUT is derived from the subject the link finally points to: a
\* PUT that Discord accepts after the other request has ended, with metadata
\* derived from a subject, is derived from the subject the link holds.
C39_LastPutMatchesLink ==
  [][(/\ PushPut(OK)
      /\ parked = Idle /\ handled = MaxRequests
      /\ cur.metadata.of # 0)
     => cur.metadata.of = discordLink[cur.pushUser]]_vars

\* the other request has ended, and the request that is left has had its PUT
\* accepted with the metadata of a subject that the link no longer names
C39_StalePutLast ==
  /\ parked = Idle /\ handled = MaxRequests
  /\ cur.sync = "pushed" /\ cur.nPut > 0
  /\ cur.pushUser = 1
  /\ cur.metadata.of # 0
  /\ discordLink[1] # 0
  /\ cur.metadata.of # discordLink[1]

Next ==
  \/ Tick
  \/ Close
  \/ LinkedRole
  \/ \E state \in StateValues, cookie \in CookieValues, code \in DiscordCodes :
       DiscordStart(state, cookie, code)
  \/ \E r \in Statuses, e \in ExpiresIn : DiscordExchange(r, e)
  \/ \E r \in Statuses : DiscordProfile(r)
  \/ \E r \in {OK} : DiscordState(r)
  \/ \E state \in StateValues, cookie \in CookieValues, code \in ScoutIDCodes :
       ScoutidStart(state, cookie, code)
  \/ \E r \in Replies, expires_in \in ScoutIDExpiresIn :
        ScoutidExchange(r, expires_in)
  \/ \E r \in Replies : ScoutidProfile(r)
  \/ SetLinked
  \/ \E named \in Profiles, configured \in BOOLEAN : Nickname(named, configured)
  \/ \E r \in Replies, named \in Profiles : NickProfile(r, named)
  \/ \E r \in Statuses, n \in 0..MaxGuilds : NickGuilds(r, n)
  \/ \E holds \in BOOLEAN, check \in {"none", "granted", "denied", "failed", "threw"},
        outcome \in {"updated", "refused", "threw"} :
          NickGuild(holds, check, outcome)
  \/ \E userId \in Users \cup {Undefined} : UpdateMetadata(userId)
  \/ SyncRead
  \/ \E r \in Replies : SyncScoutid(r)
  \/ \E r \in Replies, listed \in Participants : SyncScoutnet(r, listed)
  \/ \E r \in Statuses, e \in ExpiresIn : PushRefresh(r, e)
  \/ \E r \in Statuses : PushPut(r)

Spec == Init /\ [][Next]_vars

\* the server, and the sync called on its own
NextSync ==
  \/ Next
  \/ \E userId \in Users : Sync(userId)

SyncSpec == Init /\ [][NextSync]_vars

\* Requests are handled to their end and time passes.
LiveSpec == Spec /\ WF_vars(Next)

\* Two Discord users have linked the same ScoutID subject, the second after
\* the first, and the first one's Discord access token has expired since:
\* the state of the server.js deployment after two link flows, each a
\* /discord-oauth-callback and a /scoutid-oauth-callback, and 600 s.
SharedInit ==
  /\ srv = "server.js" /\ dsc = "part_002" /\ sto = "redis"
  /\ handled = 0
  /\ nextState = 3
  /\ discordTokens =
       [u \in Users |->
          IF u = 1 THEN [owner |-> 1, exp |-> Past, expires_in |-> 0,
                         ttl |-> TokenTTL - 1]
          ELSE IF u = 2 THEN [owner |-> 2, exp |-> TokenTTL,
                              expires_in |-> TokenTTL + 1,
                              ttl |-> TokenTTL - 1]
          ELSE NoDiscordTokens]
  /\ stateData = [s \in StateTokens |-> NoStateData]
  /\ scoutidTokens =
       [s \in Subjects |->
          IF s = 1 THEN [discord_user_id |-> 2, subject |-> 1, code_verifier |-> 2,
                         exp |-> Past, ttl |-> TokenTTL - 1]
          ELSE NoScoutIDTokens]
  /\ discordLink = [u \in Users |-> IF u \in {1, 2} THEN 1 ELSE 0]
  /\ scoutnetCache = 0
  /\ participants = NoParticipant
  /\ consumed = {1, 2}
  /\ cookies = [s \in StateTokens |-> NoCookie]
  /\ cur = Idle
  /\ parked = Idle

\* the sync called on its own, and the clock
NextShared ==
  \/ Tick
  \/ Close
  \/ \E userId \in Users : Sync(userId)
  \/ SyncRead
  \/ \E r \in Replies : SyncScoutid(r)
  \/ \E r \in Replies, listed \in Participants : SyncScoutnet(r, listed)
  \/ \E r \in Statuses, e \in ExpiresIn : PushRefresh(r, e)
  \/ \E r \in Statuses : PushPut(r)

SharedSpec == SharedInit /\ [][NextShared]_vars

\* One Discord user has gone through /discord-oauth-callback twice, in two
\* browser tabs: the Discord token set of the second visit is stored, and a
\* LinkState of each visit, with its own code verifier.  Two more requests
\* are to come.
ConcInit ==
  /\ \E d \in Deployments : srv = d[1] /\ dsc = d[2] /\ sto = d[3]
  /\ handled = MaxRequests - 2
  /\ nextState = 3
  /\ \E e \in ExpiresIn :
        discordTokens =
          [u \in Users |->
             IF u = 1 THEN [owner |-> 1, exp |-> e, expires_in |-> e,
                            ttl |-> Expiry(TokenTTL)]
             ELSE NoDiscordTokens]
  /\ stateData =
       [s \in StateTokens |->
          IF s <= 2 THEN [discordUserId |-> 1, codeVerifier |-> s,
                          ttl |-> Expiry(StateTTL)]
          ELSE NoStateData]
  /\ scoutidTokens = [s \in Subjects |-> NoScoutIDTokens]
  /\ discordLink = [u \in Users |-> 0]
  /\ scoutnetCache = 0
  /\ participants = NoParticipant
  /\ consumed = {}
  /\ cookies = [s \in StateTokens |->
                  IF s <= 2 THEN [left |-> CookieMaxAge, status |-> Redirect]
                  ELSE NoCookie]
  /\ cur = Idle
  /\ parked = Idle

\* ScoutID callbacks and syncs that interleave at their awaits; no time
\* passes, so that no Discord token set is found expired
NextConc ==
  \/ Switch
  \/ Close
  \/ \E state \in StateValues, cookie \in CookieValues, code \in ScoutIDCodes :
       ScoutidStart(state, cookie, code)
  \/ \E r \in Replies, expires_in \in ScoutIDExpiresIn :
        ScoutidExchange(r, expires_in)
  \/ \E r \in Replies : ScoutidProfile(r)
  \/ SetLinked
  \/ \E named \in Profiles, configured \in BOOLEAN : Nickname(named, configured)
  \/ \E r \in Replies, named \in Profiles : NickProfile(r, named)
  \/ \E r \in Statuses, n \in 0..MaxGuilds : NickGuilds(r, n)
  \/ \E holds \in BOOLEAN, check \in {"none", "granted", "denied", "failed", "threw"},
        outcome \in {"updated", "refused", "threw"} :
          NickGuild(holds, check, outcome)
  \/ \E userId \in Users : Sync(userId)
  \/ SyncRead
  \/ \E r \in Replies : SyncScoutid(r)
  \/ \E r \in Replies, listed \in Participants : SyncScoutnet(r, listed)
  \/ \E r \in Statuses : PushPut(r)

ConcSpec == ConcInit /\ [][NextConc]_vars

\* A Discord user has linked a subject in the server.js deployment, and the
\* sync of the callback has fetched and cached the participants: the member's
\* entry in the cached list is any entry the list can hold.
ScoutnetInit ==
  /\ srv = "server.js" /\ dsc = "part_002" /\ sto = "redis"
  /\ handled = 2
  /\ nextState = 2
  /\ discordTokens =
       [u \in Users |->
          IF u = 1 THEN [owner |-> 1, exp |-> 0, expires_in |-> 0,
                         ttl |-> TokenTTL]
          ELSE NoDiscordTokens]
  /\ stateData =
       [s \in StateTokens |->
          IF s = 1 THEN [discordUserId |-> 1, codeVerifier |-> 1, ttl |-> StateTTL]
          ELSE NoStateData]
  /\ scoutidTokens =
       [s \in Subjects |->
          IF s = 1 THEN [discord_user_id |-> 1, subject |-> 1, code_verifier |-> 1,
                         exp |-> 0, ttl |-> TokenTTL]
          ELSE NoScoutIDTokens]
  /\ discordLink = [u \in Users |-> IF u = 1 THEN 1 ELSE 0]
  /\ scoutnetCache = CacheTTL
  /\ participants \in AllParticipants
  /\ consumed = {1}
  /\ cookies = [s \in StateTokens |->
                  IF s = 1 THEN [left |-> CookieMaxAge, status |-> Redirect]
                  ELSE NoCookie]
  /\ cur = Idle
  /\ parked = Idle

ScoutnetSpec == ScoutnetInit /\ [][NextShared]_vars

\* A Discord user has linked a subject: the store after the two callbacks.
NameInit ==
  /\ \E d \in Deployments : srv = d[1] /\ dsc = d[2] /\ sto = d[3]
  /\ handled = 2
  /\ nextState = 2
  /\ discordTokens =
       [u \in Users |->
          IF u = 1 THEN [owner |-> 1, exp |-> 0, expires_in |-> 0,
                         ttl |-> Expiry(TokenTTL)]
          ELSE NoDiscordTokens]
  /\ stateData =
       [s \in StateTokens |->
          IF s = 1 THEN [discordUserId |-> 1, codeVerifier |-> 1,
                         ttl |-> Expiry(StateTTL)]
          ELSE NoStateData]
  /\ scoutidTokens =
       [s \in Subjects |->
          IF s = 1 THEN [discord_user_id |-> 1, subject |-> 1, code_verifier |-> 1,
                         exp |-> 0, ttl |-> Expiry(TokenTTL)]
          ELSE NoScoutIDTokens]
  /\ discordLink = [u \in Users |-> IF u = 1 THEN 1 ELSE 0]
  /\ scoutnetCache = 0
  /\ participants = NoParticipant
  /\ consumed = {1}
  /\ cookies = [s \in StateTokens |->
                  IF s = 1 THEN [left |-> CookieMaxAge, status |-> Redirect]
                  ELSE NoCookie]
  /\ cur = Idle
  /\ parked = Idle

\* updateNickname called on its own, for every userinfo response
NextName ==
  \/ Close
  \/ \E userId \in Users : UpdateNickname(userId)
  \/ \E named \in AllProfiles, configured \in BOOLEAN :
        Nickname(named, configured)
  \/ \E r \in Replies, named \in AllProfiles : NickProfile(r, named)
  \/ \E r \in Statuses, n \in 0..MaxGuilds : NickGuilds(r, n)
  \/ \E holds \in BOOLEAN, check \in {"none", "granted", "denied", "failed", "threw"},
        outcome \in {"updated", "refused", "threw"} :
          NickGuild(holds, check, outcome)

NameSpec == NameInit /\ [][NextName]_vars

\* Discord users 1 and 2 have each gone through /discord-oauth-callback: the
\* token set and the LinkState of each are stored.  Two more requests are to
\* come.
PairInit ==
  /\ \E d \in Deployments : srv = d[1] /\ dsc = d[2] /\ sto = d[3]
  /\ handled = MaxRequests - 2
  /\ nextState = 3
  /\ \E e \in ExpiresIn :
        discordTokens =
          [u \in Users |->
             IF u <= 2 THEN [owner |-> u, exp |-> e, expires_in |-> e,
                             ttl |-> Expiry(TokenTTL)]
             ELSE NoDiscordTokens]
  /\ stateData =
       [s \in StateTokens |->
          IF s <= 2 THEN [discordUserId |-> s, codeVerifier |-> s,
                          ttl |-> Expiry(StateTTL)]
          ELSE NoStateData]
  /\ scoutidTokens = [s \in Subjects |-> NoScoutIDTokens]
  /\ discordLink = [u \in Users |-> 0]
  /\ scoutnetCache = 0
  /\ participants = NoParticipant
  /\ consumed = {}
  /\ cookies = [s \in StateTokens |->
                  IF s <= 2 THEN [left |-> CookieMaxAge, status |-> Redirect]
                  ELSE NoCookie]
  /\ cur = Idle
  /\ parked = Idle

\* the ScoutID callback and the clock
NextPair ==
  \/ Tick
  \/ Close
  \/ \E state \in StateValues, cookie \in CookieValues, code \in ScoutIDCodes :
       ScoutidStart(state, cookie, code)
  \/ \E r \in Replies, expires_in \in ScoutIDExpiresIn :
        ScoutidExchange(r, expires_in)
  \/ \E r \in Replies : ScoutidProfile(r)
  \/ SetLinked
  \/ \E named \in Profiles, configured \in BOOLEAN : Nickname(named, configured)
  \/ \E r \in Replies, named \in Profiles : NickProfile(r, named)
  \/ \E r \in Statuses, n \in 0..MaxGuilds : NickGuilds(r, n)
  \/ \E holds \in BOOLEAN, check \in {"none", "granted", "denied", "failed", "threw"},
        outcome \in {"updated", "refused", "threw"} :
          NickGuild(holds, check, outcome)
  \/ SyncRead
  \/ \E r \in Replies : SyncScoutid(r)
  \/ \E r \in Replies, listed \in Participants : SyncScoutnet(r, listed)
  \/ \E r \in Statuses, e \in ExpiresIn : PushRefresh(r, e)
  \/ \E r \in Statuses : PushPut(r)

PairSpec == PairInit /\ [][NextPair]_vars

\* One /linked-role has been answered; from here the store may fail the
\* storeStateData call of the Discord callback.
StoreInit ==
  /\ \E d \in Deployments : srv = d[1] /\ dsc = d[2] /\ sto = d[3]
  /\ handled = 1
  /\ nextState = 2
  /\ discordTokens = [u \in Users |-> NoDiscordTokens]
  /\ stateData = [s \in StateTokens |-> NoStateData]
  /\ scoutidTokens = [s \in Subjects |-> NoScoutIDTokens]
  /\ discordLink = [u \in Users |-> 0]
  /\ scoutnetCache = 0
  /\ participants = NoParticipant
  /\ consumed = {}
  /\ cookies = [s \in StateTokens |-> NoCookie]
  /\ cur = Idle
  /\ parked = Idle

NextStore ==
  \/ Next
  \/ DiscordState(ServerError)

StoreSpec == StoreInit /\ [][NextStore]_vars

\* Discord user 1 has linked subject 1 with a Discord token set of less than
\* 600 s, and 600 s have passed: the set has expired.  Two syncs are to come.
RaceInit ==
  /\ \E d \in Deployments : srv = d[1] /\ dsc = d[2] /\ sto = d[3]
  /\ handled = MaxRequests - 2
  /\ nextState = 3
  /\ discordTokens =
       [u \in Users |->
          IF u = 1 THEN [owner |-> 1, exp |-> Past, expires_in |-> 0,
                         ttl |-> AgeTtl(Expiry(TokenTTL), 1)]
          ELSE NoDiscordTokens]
  /\ stateData =
       [s \in StateTokens |->
          IF s = 2 /\ sto = "memory"
          THEN [discordUserId |-> 1, codeVerifier |-> 2, ttl |-> Never]
          ELSE NoStateData]
  /\ scoutidTokens =
       [s \in Subjects |->
          IF s = 1 THEN [discord_user_id |-> 1, subject |-> 1, code_verifier |-> 2,
                         exp |-> Past, ttl |-> AgeTtl(Expiry(TokenTTL), 1)]
          ELSE NoScoutIDTokens]
  /\ discordLink = [u \in Users |-> IF u = 1 THEN 1 ELSE 0]
  /\ scoutnetCache = 0
  /\ participants = NoParticipant
  /\ consumed = {2}
  /\ cookies = [s \in StateTokens |-> NoCookie]
  /\ cur = Idle
  /\ parked = Idle

\* syncs that interleave at their awaits
NextRace ==
  \/ Switch
  \/ Close
  \/ \E userId \in Users : Sync(userId)
  \/ SyncRead
  \/ \E r \in Replies : SyncScoutid(r)
  \/ \E r \in Replies, listed \in Participants : SyncScoutnet(r, listed)
  \/ \E r \in Statuses, e \in ExpiresIn : PushRefresh(r, e)
  \/ \E r \in Statuses : PushPut(r)

RaceSpec == RaceInit /\ [][NextRace]_vars

NextNick == Next \/ \E userId \in Users \cup {Undefined} : UpdateNickname(userId)

NickSpec == Init /\ [][NextNick]_vars

NextTwice == Next \/ \E userId \in Users : SyncTwice(userId)

TwiceSpec == Init /\ [][NextTwice]_vars
====
